---- MODULE Spec2Model ----
(***************************************************************************)
(* Model of the CursorCLI MCP server core: the tool registry, the tool     *)
(* executor with its counting semaphore and deadline race, the MCP         *)
(* protocol handler (initialize / tools/list / tools/call) and the stdio   *)
(* transport (newline-delimited JSON over stdin / stdout).                 *)
(***************************************************************************)
EXTENDS Integers, Sequences, FiniteSets, TLC

\* ---------------------------------------------------------------- bounds
MaxConcurrency == 2          \* ExecutorConfig.maxConcurrency
TimeoutMs == 1               \* ExecutorConfig.timeoutMs, in clock ticks
MaxRequests == 3             \* protocol requests received in one session
MaxInput == 5                \* bytes emitted by stdin in one session
MaxSends == 2                \* send() calls in one session
MaxHandlers == 2             \* close handlers registered with onClose
MaxSignals == 2              \* 'end' and 'error' events emitted by the streams
MaxRegistrations == 3        \* successful register calls on one registry
MaxLoads == 2                \* loadConfig() calls of clients
MaxChanges == 3              \* writes to the configuration file
MaxCallbacks == 2            \* callbacks registered with watchConfig
MaxSetups == 2               \* setup() calls on the global error handler
MaxFaults == 2               \* uncaught faults handled before the exit
MaxRecords == 2              \* token usage records

\* execute calls issued in one run: enough to fill the semaphore and one more
NumCalls == MaxConcurrency + 1

CallIds == 1..NumCalls

\* ------------------------------------------------------ executor inputs
ToolNames == {"echo"}
ArgValues == {"good", "bad"}
\* a schema is modelled by the set of argument values it accepts
EchoSchema == {"good"}
Absent == [present |-> FALSE]

VARIABLES
  tools,          \* ToolRegistry.tools : name -> InternalTool | Absent
  permits,        \* Semaphore.permits
  queue,          \* Semaphore.queue : calls waiting for a permit, FIFO
  calls,          \* one record per execute() invocation
  initialized,    \* MCPProtocolHandler.initialized
  clientInfo,     \* MCPProtocolHandler.clientInfo
  handlerTools,   \* MCPProtocolHandler.tools (names of its definitions)
  log,            \* requests received by the protocol handler, with outcome
  connected,      \* StdioTransport.connected
  closed,         \* StdioTransport.closed
  buffer,         \* StdioTransport.buffer (decoded characters)
  closeHandlers,  \* StdioTransport.closeHandlers : invocations of each
  attached,       \* copies of the transport's listeners on the streams
  otherAttached,  \* another consumer has listeners on the same streams
  otherGot,       \* the last stream event reached the other consumer
  writes,         \* units handed to stdout.write, with their completion
  received,       \* bytes emitted by stdin so far
  signals,        \* 'end' and 'error' events emitted by the streams so far
  events,         \* message, error and close events emitted to handlers
  lastCall,       \* the last start / send / close call and how it ended
  registry,       \* a ToolRegistry's tools Map: its entries in insertion order
  regCall,        \* the last call on that registry and how it ended
  regStamp,       \* name -> rank of its current registration, 0 when none
  regCount,       \* successful register calls so far
  validation,     \* the last validatePath call: validator, input and result
  cfgFile,        \* content of the configuration file
  config,         \* ConfigurationManager.config
  loading,        \* ConfigurationManager.loadingPromise: the load in flight, 0 when none
  loadRead,       \* what the load in flight has read, "none" before it reads
  flights,        \* loads started so far
  reads,          \* fs.readFile calls so far
  loaders,        \* one record per loadConfig() call of a client
  reloads,        \* reload callbacks of the watcher awaiting the load in flight
  watcher,        \* ConfigurationManager.watcher: none, active or closing
  changeCallbacks, \* ConfigurationManager.changeCallbacks
  callbackCount,  \* callbacks registered so far
  invocations,    \* callback -> the snapshots it has been invoked with
  timers,         \* debounce timers that are pending
  reloadTimeout,  \* ConfigurationManager.reloadTimeout, 0 when null
  changes,        \* writes to the configuration file so far
  retired,        \* callbacks that were registered when a stopWatching completed
  lateReload,     \* a reload has completed after a stopWatching completed
  overlay,        \* one load: the file, the environment and the snapshot
  errCall,        \* the last handleError call: error, request id, response
  geh,            \* the GlobalErrorHandler and the process it is installed on
  stats           \* the ModelInfoTool, the current model, the last statistics

execVars == <<tools, permits, queue, calls>>
protoVars == <<initialized, clientInfo, handlerTools, log>>
transVars == <<connected, closed, buffer, closeHandlers, attached,
               otherAttached, otherGot, writes, received, signals, events,
               lastCall>>
regVars == <<registry, regCall, regStamp, regCount>>
secVars == <<validation>>
cfgVars == <<cfgFile, config, loading, loadRead, flights, reads, loaders,
             reloads, watcher, changeCallbacks, callbackCount, invocations,
             timers, reloadTimeout, changes, retired, lateReload>>
envVars == <<overlay>>
errVars == <<errCall>>
gehVars == <<geh>>
statVars == <<stats>>
restVars == <<regVars, secVars, cfgVars, envVars, errVars, gehVars, statVars>>
vars == <<tools, permits, queue, calls, initialized, clientInfo, handlerTools, log,
          connected, closed, buffer, closeHandlers, attached, otherAttached,
          otherGot, writes, received, signals, events, lastCall,
          registry, regCall, regStamp, regCount, validation,
          cfgFile, config, loading, loadRead, flights, reads, loaders,
          reloads, watcher, changeCallbacks, callbackCount, invocations,
          timers, reloadTimeout, changes, retired, lateReload, overlay,
          errCall, geh, stats>>

\* ================================================================ registry

InternalTool(s, e) == [present |-> TRUE, schema |-> s, enabled |-> e]

RegistryGet(name) == tools[name]

RegistryHas(name) == tools[name].present

\* register: throws on a duplicate name, else stores the tool enabled
Register(name, s) ==
  /\ IF RegistryHas(name)
       THEN UNCHANGED tools
       ELSE tools' = [tools EXCEPT ![name] = InternalTool(s, TRUE)]
  /\ UNCHANGED <<permits, queue, calls, protoVars, transVars, restVars>>

\* unregister: throws when absent, else deletes the entry
Unregister(name) ==
  /\ IF ~RegistryHas(name)
       THEN UNCHANGED tools
       ELSE tools' = [tools EXCEPT ![name] = Absent]
  /\ UNCHANGED <<permits, queue, calls, protoVars, transVars, restVars>>

Disable(name) ==
  /\ IF ~RegistryHas(name)
       THEN UNCHANGED tools
       ELSE tools' = [tools EXCEPT ![name].enabled = FALSE]
  /\ UNCHANGED <<permits, queue, calls, protoVars, transVars, restVars>>

Enable(name) ==
  /\ IF ~RegistryHas(name)
       THEN UNCHANGED tools
       ELSE tools' = [tools EXCEPT ![name].enabled = TRUE]
  /\ UNCHANGED <<permits, queue, calls, protoVars, transVars, restVars>>

\* =============================================================== semaphore

CanAcquire_NoLimit(p) == TRUE

\* Semaphore.acquire: a permit is taken at once only when permits > 0
CanAcquire(p) == p > 0

\* Semaphore.acquire: this.permits--
AfterAcquire(p) == p - 1

AfterRelease_Forgotten(p) == p

\* Semaphore.release: this.permits++
AfterRelease(p) == p + 1

\* ================================================================ executor

IdleCall == [pc |-> "idle", tool |-> "none", args |-> "none", schema |-> {},
             handler |-> "none", timer |-> FALSE, elapsed |-> 0,
             winner |-> "none", settledAt |-> 0, outcome |-> "none",
             releases |-> 0]

SchemaAccepts_Anything(schema, a) == TRUE

\* tool.schema.parse(params): throws unless the schema accepts the value
SchemaAccepts(schema, a) == a \in schema

Deadline_Late == TimeoutMs + 1

\* the delay given to setTimeout for the deadline: this.timeoutMs
Deadline == TimeoutMs

\* calls are numbered in the order in which execute() is invoked
IsNextCall(c) ==
  calls[c].pc = "idle" /\ \A d \in CallIds : d < c => calls[d].pc # "idle"

\* a finally block that keeps the permit of a call that timed out
ReleaseBy_UnlessTimedOut(c, doneRec) ==
  IF doneRec.outcome = "Timeout"
    THEN /\ calls' = [calls EXCEPT ![c] = doneRec]
         /\ UNCHANGED <<permits, queue>>
  ELSE IF queue = <<>>
    THEN /\ permits' = AfterRelease(permits)
         /\ queue' = queue
         /\ calls' = [calls EXCEPT ![c] = doneRec]
    ELSE /\ permits' = AfterAcquire(AfterRelease(permits))
         /\ queue' = Tail(queue)
         /\ calls' = [calls EXCEPT ![c] = doneRec,
                                   ![Head(queue)].pc = "acquired"]

\* the release closure run by the finally block: permits++, then the first
\* queued waiter (if any) takes the permit back and is resumed
ReleaseBy(c, doneRec) ==
  IF queue = <<>>
    THEN /\ permits' = AfterRelease(permits)
         /\ queue' = queue
         /\ calls' = [calls EXCEPT ![c] = doneRec]
    ELSE /\ permits' = AfterAcquire(AfterRelease(permits))
         /\ queue' = Tail(queue)
         /\ calls' = [calls EXCEPT ![c] = doneRec,
                                   ![Head(queue)].pc = "acquired"]

\* execute(), up to the first suspension: registry lookup, semaphore.acquire
Execute(c, name, a) ==
  /\ IsNextCall(c)
  /\ LET base == [IdleCall EXCEPT !.tool = name, !.args = a]
     IN IF ~RegistryGet(name).present
          THEN /\ calls' = [calls EXCEPT ![c] =
                     [base EXCEPT !.pc = "done", !.outcome = "ToolNotFound"]]
               /\ UNCHANGED <<permits, queue>>
          ELSE IF CanAcquire(permits)
            THEN /\ permits' = AfterAcquire(permits)
                 /\ calls' = [calls EXCEPT ![c] =
                       [base EXCEPT !.pc = "acquired",
                                    !.schema = RegistryGet(name).schema]]
                 /\ UNCHANGED queue
            ELSE /\ queue' = Append(queue, c)
                 /\ calls' = [calls EXCEPT ![c] =
                       [base EXCEPT !.pc = "waiting",
                                    !.schema = RegistryGet(name).schema]]
                 /\ UNCHANGED permits
  /\ UNCHANGED <<tools, protoVars, transVars, restVars>>

\* execute(), resumed with the permit: schema.parse, start the deadline
\* timer, invoke the handler; a parse failure goes straight to finally
Validate(c) ==
  /\ calls[c].pc = "acquired"
  /\ IF SchemaAccepts(calls[c].schema, calls[c].args)
       THEN /\ calls' = [calls EXCEPT ![c].pc = "racing",
                                      ![c].timer = TRUE,
                                      ![c].elapsed = 0,
                                      ![c].handler = "running"]
            /\ UNCHANGED <<permits, queue>>
       ELSE ReleaseBy(c, [calls[c] EXCEPT !.pc = "done",
                                          !.outcome = "InvalidArguments",
                                          !.releases = @ + 1])
  /\ UNCHANGED <<tools, protoVars, transVars, restVars>>

\* a handler whose settlement is taken as the outcome whenever it comes
HandlerSettles_Always(c, ok) ==
  /\ calls[c].handler = "running"
  /\ calls' = [calls EXCEPT
        ![c].handler = IF ok THEN "returned" ELSE "threw",
        ![c].pc = IF calls[c].pc = "racing" THEN "settled" ELSE @,
        ![c].settledAt = calls[c].elapsed,
        ![c].winner = IF ok THEN "result" ELSE "error",
        ![c].outcome = IF calls[c].pc = "done"
                         THEN (IF ok THEN "ok" ELSE "HandlerError") ELSE @]
  /\ UNCHANGED <<tools, permits, queue, protoVars, transVars, restVars>>

\* the handler's promise settles (fulfilled when ok, rejected otherwise);
\* it wins the race only if the race is still open
HandlerSettles(c, ok) ==
  /\ calls[c].handler = "running"
  /\ calls' = [calls EXCEPT
        ![c].handler = IF ok THEN "returned" ELSE "threw",
        ![c].pc = IF calls[c].pc = "racing" THEN "settled" ELSE @,
        ![c].settledAt = IF calls[c].pc = "racing" THEN calls[c].elapsed ELSE @,
        ![c].winner = IF calls[c].pc = "racing"
                        THEN (IF ok THEN "result" ELSE "error") ELSE @]
  /\ UNCHANGED <<tools, permits, queue, protoVars, transVars, restVars>>

\* the deadline timer fires: rejects timeoutPromise, which wins the race
\* only if the race is still open (the timer is never cleared)
TimerFires(c) ==
  /\ calls[c].timer
  /\ calls[c].elapsed = Deadline
  /\ calls' = [calls EXCEPT
        ![c].timer = FALSE,
        ![c].pc = IF calls[c].pc = "racing" THEN "settled" ELSE @,
        ![c].settledAt = IF calls[c].pc = "racing" THEN calls[c].elapsed ELSE @,
        ![c].winner = IF calls[c].pc = "racing" THEN "timeout" ELSE @]
  /\ UNCHANGED <<tools, permits, queue, protoVars, transVars, restVars>>

OutcomeOf(w) ==
  IF w = "result" THEN "ok"
  ELSE IF w = "error" THEN "HandlerError" ELSE "Timeout"

\* execute(), resumed after Promise.race: return or rethrow, then finally
Finish(c) ==
  /\ calls[c].pc = "settled"
  /\ ReleaseBy(c, [calls[c] EXCEPT !.pc = "done",
                                   !.outcome = OutcomeOf(calls[c].winner),
                                   !.releases = @ + 1])
  /\ UNCHANGED <<tools, protoVars, transVars, restVars>>

\* one unit of time passes on every pending deadline timer; promise
\* continuations and due timers run before time advances
Tick ==
  /\ \A c \in CallIds : calls[c].pc \notin {"acquired", "settled"}
  /\ \A c \in CallIds : ~(calls[c].timer /\ calls[c].elapsed >= Deadline)
  /\ \E c \in CallIds : calls[c].timer
  /\ calls' = [c \in CallIds |->
        IF calls[c].timer THEN [calls[c] EXCEPT !.elapsed = @ + 1]
                          ELSE calls[c]]
  /\ UNCHANGED <<tools, permits, queue, protoVars, transVars, restVars>>

InitExec ==
  /\ tools = [n \in ToolNames |-> Absent]
  /\ permits = MaxConcurrency
  /\ queue = <<>>
  /\ calls = [c \in CallIds |-> IdleCall]

NextExec ==
  \/ \E n \in ToolNames : Register(n, EchoSchema)
  \/ \E n \in ToolNames : Unregister(n)
  \/ \E n \in ToolNames : Disable(n)
  \/ \E n \in ToolNames : Enable(n)
  \/ \E c \in CallIds, n \in ToolNames, a \in ArgValues : Execute(c, n, a)
  \/ \E c \in CallIds : Validate(c)
  \/ \E c \in CallIds, ok \in BOOLEAN : HandlerSettles(c, ok)
  \/ \E c \in CallIds : TimerFires(c)
  \/ \E c \in CallIds : Finish(c)
  \/ Tick

\* ======================================================= executor: claims

\* the call c is issued by this step (execute() is invoked)
Issued(c) == calls[c].pc = "idle" /\ calls'[c].pc # "idle"

Racing == {c \in CallIds : calls[c].pc = "racing"}

\* handler invocations that have started and have neither returned (or
\* thrown) nor been timed out
InFlight == {c \in CallIds : calls[c].handler = "running" /\ calls[c].winner # "timeout"}

\* calls that hold a permit: admitted and not yet through the finally block
Holders == {c \in CallIds : calls[c].pc \in {"acquired", "racing", "settled"}}

InProgress == {c \in CallIds : calls[c].pc \notin {"idle", "done"}}

\* C1: with maxConcurrency calls admitted and their handlers still running,
\* a further execute call for a registered, enabled tool fails at once with
\* ConcurrencyLimitExceeded, without waiting and without invoking its handler.
C1_RejectedWhenFull ==
  [][\A c \in CallIds :
       (/\ Issued(c)
        /\ Cardinality(Racing) = MaxConcurrency
        /\ tools[calls'[c].tool].present
        /\ tools[calls'[c].tool].enabled)
       => (/\ calls'[c].pc = "done"
           /\ calls'[c].outcome = "ConcurrencyLimitExceeded"
           /\ calls'[c].handler = "none"
           /\ queue' = queue)]_vars

\* C2: at every instant the number of handler invocations that have started
\* and have neither returned nor been timed out is at most maxConcurrency.
C2_InFlightBounded == Cardinality(InFlight) <= MaxConcurrency

\* the semaphore is full of running handlers and one more call is waiting
C2_Witness ==
  /\ Cardinality(InFlight) = MaxConcurrency
  /\ \E c \in CallIds : calls[c].pc = "waiting"

\* C3: when the tool's schema rejects the arguments, the handler is never
\* invoked and the call, once over, has failed with InvalidArguments.
C3_InvalidArgsNeverRun ==
  \A c \in CallIds :
    (calls[c].pc \notin {"idle", "waiting", "acquired"}
       /\ calls[c].outcome # "ToolNotFound"
       /\ calls[c].args \notin calls[c].schema)
    => (/\ calls[c].handler = "none"
        /\ ~calls[c].timer
        /\ calls[c].pc = "done"
        /\ calls[c].outcome = "InvalidArguments")

C3_Witness ==
  \E c \in CallIds :
    /\ calls[c].pc = "done"
    /\ calls[c].outcome = "InvalidArguments"
    /\ calls[c].args = "bad"
    /\ calls[c].handler = "none"

\* C4: execute on a registered tool whose enabled flag is false fails with
\* ToolDisabled and does not invoke the handler, whatever the arguments.
C4_DisabledRejected ==
  [][\A c \in CallIds :
       (/\ Issued(c)
        /\ tools[calls'[c].tool].present
        /\ ~tools[calls'[c].tool].enabled)
       => (/\ calls'[c].pc = "done"
           /\ calls'[c].outcome = "ToolDisabled"
           /\ calls'[c].handler = "none")]_vars

\* C5: a call rejected at registry lookup (tool missing or disabled) takes
\* no permit and does not wait for one: it is over within the call, also
\* when all permits are held, and permits and queue are as before.
C5_LookupRejectionFree ==
  [][\A c \in CallIds :
       (/\ Issued(c)
        /\ \/ ~tools[calls'[c].tool].present
           \/ ~tools[calls'[c].tool].enabled)
       => (/\ calls'[c].pc = "done"
           /\ calls'[c].outcome \in {"ToolNotFound", "ToolDisabled"}
           /\ permits' = permits
           /\ queue' = queue)]_vars

\* C6: every admitted call releases its permit exactly once on every path,
\* so available permits plus permit holders equal the limit, and all
\* permits are available when no call is in progress.
C6_PermitsConserved ==
  /\ permits + Cardinality(Holders) = MaxConcurrency
  /\ \A c \in CallIds :
       /\ calls[c].releases <= 1
       /\ (calls[c].pc = "done" /\ calls[c].outcome # "ToolNotFound")
            => calls[c].releases = 1
       /\ calls[c].pc # "done" => calls[c].releases = 0
  /\ InProgress = {} => permits = MaxConcurrency

\* every call is over, all permits are back, and the calls ended on
\* different paths, a timeout and a validation failure among them
C6_Witness ==
  /\ InProgress = {}
  /\ permits = MaxConcurrency
  /\ \E c \in CallIds : calls[c].outcome = "Timeout" /\ calls[c].releases = 1
  /\ \E c \in CallIds : calls[c].outcome = "InvalidArguments" /\ calls[c].releases = 1
  /\ \E c \in CallIds : calls[c].outcome \in {"ok", "HandlerError"} /\ calls[c].releases = 1

\* the states of a deadline race: open only up to the deadline and only
\* while the handler runs; settled by the timeout exactly at the deadline, or
\* by the handler not later than the deadline; the outcome follows the winner
C7_RaceStates ==
  \A c \in CallIds :
    /\ calls[c].pc = "racing" =>
         (calls[c].elapsed <= TimeoutMs /\ calls[c].handler = "running")
    /\ calls[c].winner = "timeout" =>
         (calls[c].settledAt = TimeoutMs
            /\ (calls[c].pc = "done" => calls[c].outcome = "Timeout"))
    /\ calls[c].winner = "result" =>
         (/\ calls[c].settledAt <= TimeoutMs
          /\ calls[c].handler = "returned"
          /\ (calls[c].pc = "done" => calls[c].outcome = "ok"))
    /\ calls[c].winner = "error" =>
         (/\ calls[c].settledAt <= TimeoutMs
          /\ calls[c].handler = "threw"
          /\ (calls[c].pc = "done" => calls[c].outcome = "HandlerError"))

\* C7: a race is never open beyond the deadline; the timeout wins only at
\* the deadline, and the call then fails with Timeout; a handler that
\* completes while the race is open, hence not after the deadline, wins, and
\* the call returns its result (or rethrows its error); the timeout wins
\* only over a handler that is still running at the deadline.
C7_DeadlineRace ==
  /\ [][\A c \in CallIds :
         /\ (calls[c].winner = "none" /\ calls'[c].winner = "timeout") =>
              (calls[c].handler = "running" /\ calls[c].elapsed = TimeoutMs)
         /\ (calls[c].pc = "racing" /\ calls'[c].handler # "running") =>
              calls'[c].winner \in {"result", "error"}]_vars
  /\ []C7_RaceStates

\* one call timed out at the deadline, another returned its handler's
\* result strictly before the deadline
C7_Witness ==
  /\ \E c \in CallIds :
       calls[c].pc = "done" /\ calls[c].outcome = "Timeout"
         /\ calls[c].settledAt = TimeoutMs
  /\ \E c \in CallIds :
       calls[c].pc = "done" /\ calls[c].outcome = "ok"
         /\ calls[c].settledAt < TimeoutMs

\* the step is the finally block of a call that timed out
TimeoutReturns(c) ==
  calls[c].pc = "settled" /\ calls[c].winner = "timeout" /\ calls'[c].pc = "done"

\* C34: the permit of a call that times out is released at the timeout
\* point, whether or not its handler has returned, so that a waiting call
\* is admitted then and a call that times out holds no permit afterwards.
C34_PermitReleasedAtTimeout ==
  /\ [][\A c \in CallIds :
         TimeoutReturns(c) =>
           /\ calls[c].elapsed = TimeoutMs
           /\ calls'[c].releases = 1
           /\ IF queue = <<>>
                THEN permits' = permits + 1
                ELSE /\ permits' = permits
                     /\ calls'[Head(queue)].pc = "acquired"
                     /\ queue' = Tail(queue)]_vars
  /\ [](\A c \in CallIds :
         (calls[c].pc = "done" /\ calls[c].outcome = "Timeout")
           => (c \notin Holders
                 /\ permits + Cardinality(Holders) = MaxConcurrency))

\* a call has timed out and its handler is still running, yet as many
\* handlers as there are permits were started after it and race
C34_Witness ==
  \E c \in CallIds :
    /\ calls[c].pc = "done"
    /\ calls[c].outcome = "Timeout"
    /\ calls[c].handler = "running"
    /\ Cardinality({d \in Racing : d > c}) = MaxConcurrency

\* C35: each execute call produces exactly one outcome: once the call is
\* over its outcome never changes, and a handler that finishes after its
\* call has timed out leaves the Timeout in place.
C35_LateResultDropped ==
  /\ [][\A c \in CallIds :
         calls[c].pc = "done" =>
           /\ calls'[c].pc = "done"
           /\ calls'[c].outcome = calls[c].outcome
           /\ calls'[c].winner = calls[c].winner
           /\ calls'[c].releases = calls[c].releases]_vars
  /\ [](\A c \in CallIds :
         calls[c].winner = "timeout" /\ calls[c].pc = "done"
           => calls[c].outcome = "Timeout")

\* a handler has returned, and another one has thrown, after the call
\* had failed with Timeout
C35_Witness ==
  /\ \E c \in CallIds :
       calls[c].pc = "done" /\ calls[c].outcome = "Timeout"
         /\ calls[c].handler = "returned"
  /\ \E c \in CallIds :
       calls[c].pc = "done" /\ calls[c].outcome = "Timeout"
         /\ calls[c].handler = "threw"

\* C39: the deadline timer of a call is destroyed when the call completes:
\* once execute has returned a result or an error, no deadline timer of
\* that call is pending.
C39_NoTimerAfterCompletion ==
  \A c \in CallIds : calls[c].pc = "done" => ~calls[c].timer

\* ======================================================== protocol handler

SUPPORTED_PROTOCOL_VERSIONS == {"2024-11-05"}
Versions == {"2024-11-05", "1999-01-01"}
Clients == {"clientA", "clientB"}
CallNames == {"echo", "non_existent"}
Null == "null"

IsVersionSupported_Any(version) == TRUE

IsVersionSupported(version) == version \in SUPPORTED_PROTOCOL_VERSIONS

EnsureInitialized_Skipped == TRUE

\* ensureInitialized passes (does not throw) iff this.initialized
EnsureInitialized == initialized

Entry(m, v, ci, n, r) ==
  [method |-> m, version |-> v, client |-> ci, name |-> n, result |-> r,
   initBefore |-> initialized, initAfter |-> initialized',
   clientBefore |-> clientInfo, clientAfter |-> clientInfo']

Initialize(v, ci) ==
  /\ Len(log) < MaxRequests
  /\ IF ~IsVersionSupported(v)
       THEN /\ UNCHANGED <<initialized, clientInfo>>
            /\ log' = Append(log, Entry("initialize", v, ci, Null,
                                        "UnsupportedProtocolVersion"))
       ELSE /\ clientInfo' = ci
            /\ initialized' = TRUE
            /\ log' = Append(log, Entry("initialize", v, ci, Null, "ok"))
  /\ UNCHANGED <<handlerTools, execVars, transVars, restVars>>

ListTools ==
  /\ Len(log) < MaxRequests
  /\ UNCHANGED <<initialized, clientInfo, handlerTools, execVars, transVars, restVars>>
  /\ log' = Append(log, Entry("tools/list", Null, Null, Null,
               IF ~EnsureInitialized THEN "NotInitialized" ELSE "ok"))

CallTool(name) ==
  /\ Len(log) < MaxRequests
  /\ UNCHANGED <<initialized, clientInfo, handlerTools, execVars, transVars, restVars>>
  /\ log' = Append(log, Entry("tools/call", Null, Null, name,
               IF ~EnsureInitialized THEN "NotInitialized"
               ELSE IF name \notin handlerTools THEN "ToolNotFound"
               ELSE "NotImplemented"))

InitProto ==
  /\ initialized = FALSE
  /\ clientInfo = Null
  /\ handlerTools = {}
  /\ log = <<>>

NextProto ==
  \/ \E v \in Versions, ci \in Clients : Initialize(v, ci)
  \/ ListTools
  \/ \E n \in CallNames : CallTool(n)

\* ================================================ protocol handler: claims

LogIdx == 1..Len(log)

\* C8: while the session is uninitialized, tools/list and tools/call (any
\* tool name) fail with NotInitialized and leave session state and client
\* info unchanged.
C8_NotInitializedRejects ==
  \A i \in LogIdx :
    (~log[i].initBefore /\ log[i].method \in {"tools/list", "tools/call"})
    => (/\ log[i].result = "NotInitialized"
        /\ ~log[i].initAfter
        /\ log[i].clientAfter = log[i].clientBefore)

\* before any initialize, a tools/list and then a tools/call were refused
C8_Witness ==
  /\ Len(log) >= 2
  /\ ~initialized
  /\ log[1].method = "tools/list" /\ log[1].result = "NotInitialized"
  /\ log[2].method = "tools/call" /\ log[2].result = "NotInitialized"

\* C9: initialize with an unsupported protocolVersion fails with
\* UnsupportedProtocolVersion and changes nothing: an uninitialized session
\* stays uninitialized with no client info, and a following tools/list
\* still fails with NotInitialized.
C9_UnsupportedVersionRejected ==
  /\ ~initialized => clientInfo = Null
  /\ \A i \in LogIdx :
       (log[i].method = "initialize"
          /\ log[i].version \notin SUPPORTED_PROTOCOL_VERSIONS)
       => (/\ log[i].result = "UnsupportedProtocolVersion"
           /\ log[i].initAfter = log[i].initBefore
           /\ log[i].clientAfter = log[i].clientBefore
           /\ ~log[i].initBefore =>
                (/\ ~log[i].initAfter
                 /\ log[i].clientAfter = Null
                 /\ (i < Len(log) /\ log[i + 1].method = "tools/list")
                      => log[i + 1].result = "NotInitialized"))

\* a fresh session refused an unsupported version and then a tools/list
C9_Witness ==
  /\ Len(log) >= 2
  /\ ~initialized
  /\ clientInfo = Null
  /\ log[1].method = "initialize"
  /\ log[1].result = "UnsupportedProtocolVersion"
  /\ log[2].method = "tools/list"
  /\ log[2].result = "NotInitialized"

FirstHandshake ==
  CHOOSE i \in LogIdx :
    /\ log[i].method = "initialize" /\ log[i].result = "ok"
    /\ \A j \in LogIdx :
         (log[j].method = "initialize" /\ log[j].result = "ok") => i <= j

\* C10: client info is captured once at the handshake and never mutated:
\* after the first successful initialize, getClientInfo returns that
\* request's clientInfo whatever is received later.
C10_ClientInfoFrozen ==
  (\E i \in LogIdx : log[i].method = "initialize" /\ log[i].result = "ok")
  => (/\ clientInfo = log[FirstHandshake].client
      /\ \A j \in LogIdx :
           j >= FirstHandshake => log[j].clientAfter = log[FirstHandshake].client)

\* ================================================== server: tools/list

\* ToolRegistry.list: the definitions of the enabled tools, each with its
\* name and its input schema (the description is carried along unchanged)
RegistryList ==
  {[name |-> n, inputSchema |-> tools[n].schema] :
     n \in {m \in ToolNames : tools[m].present /\ tools[m].enabled}}

\* what listTools() returns once ensureInitialized has passed: the values of
\* the handler's own tools map
ListToolsResult == handlerTools

\* the registry is administered while the protocol handler serves requests
NextServer ==
  \/ \E n \in ToolNames : Register(n, EchoSchema)
  \/ \E n \in ToolNames : Unregister(n)
  \/ \E n \in ToolNames : Disable(n)
  \/ \E n \in ToolNames : Enable(n)
  \/ \E v \in Versions, ci \in Clients : Initialize(v, ci)
  \/ ListTools
  \/ \E n \in CallNames : CallTool(n)

\* this step serves a tools/list request in state Initialized
ListsTools ==
  /\ Len(log') = Len(log) + 1
  /\ log'[Len(log')].method = "tools/list"
  /\ log'[Len(log')].result = "ok"

\* C11: in state Initialized, tools/list returns exactly the tools that are
\* registered and enabled in the tool registry: every one of them, and no
\* disabled or unregistered tool.
C11_ListsEnabledRegistryTools ==
  [][ListsTools => ListToolsResult = {d.name : d \in RegistryList}]_vars

\* ================================================================ sequences

AllButLast(s) == SubSeq(s, 1, Len(s) - 1)

Last(s) == s[Len(s)]

\* ====================================================== registry in full

\* a registry of its own, with every field of its entries and the order of
\* the Map, as the registry tests build it
RegNames == {"read_file", "write_file"}
Descriptions == {"d1", "d2"}
RegSchemas == {"pathSchema", "contentSchema"}
Handlers == {"h1", "h2"}

\* ToolRegistration
Registrations ==
  [name : RegNames, description : Descriptions, schema : RegSchemas,
   handler : Handlers]

\* positions of the entries of the Map m whose key is name
Positions(m, name) == {i \in DOMAIN m : m[i].name = name}

\* Map.prototype.has
MapHas(m, name) == Positions(m, name) # {}

\* Map.prototype.get, for a key the Map has
MapGet(m, name) == m[CHOOSE i \in Positions(m, name) : TRUE]

\* Map.prototype.set: the value of an existing key is replaced where it
\* stands, a new key goes to the end
MapSet(m, e) ==
  IF MapHas(m, e.name)
    THEN [i \in DOMAIN m |-> IF m[i].name = e.name THEN e ELSE m[i]]
    ELSE Append(m, e)

\* Map.prototype.delete
MapDelete(m, name) == SelectSeq(m, LAMBDA e : e.name # name)

NoRegCall == [op |-> "none", name |-> "none", result |-> "none"]

RegCalled(op, name, result) == [op |-> op, name |-> name, result |-> result]

RegisterRefused_Never(name) == FALSE

\* register: if (this.tools.has(registration.name)) throw
RegisterRefused(name) == MapHas(registry, name)

\* register(registration): throws 'Tool already registered' on a taken
\* name, else stores the entry, enabled
RegistryRegister(reg) ==
  /\ IF RegisterRefused(reg.name)
       THEN /\ regCall' = RegCalled("register", reg.name, "AlreadyRegistered")
            /\ UNCHANGED <<registry, regStamp, regCount>>
       ELSE /\ regCount < MaxRegistrations
            /\ registry' = MapSet(registry,
                 [name |-> reg.name, description |-> reg.description,
                  schema |-> reg.schema, handler |-> reg.handler,
                  enabled |-> TRUE])
            /\ regCount' = regCount + 1
            /\ regStamp' = [regStamp EXCEPT ![reg.name] = regCount + 1]
            /\ regCall' = RegCalled("register", reg.name, "ok")
  /\ UNCHANGED <<execVars, protoVars, transVars, secVars, cfgVars, envVars, errVars, gehVars, statVars>>

\* unregister(name): throws 'Tool not found' when absent, else deletes
RegistryUnregister(name) ==
  /\ IF ~MapHas(registry, name)
       THEN /\ regCall' = RegCalled("unregister", name, "NotFound")
            /\ UNCHANGED <<registry, regStamp>>
       ELSE /\ registry' = MapDelete(registry, name)
            /\ regStamp' = [regStamp EXCEPT ![name] = 0]
            /\ regCall' = RegCalled("unregister", name, "ok")
  /\ UNCHANGED <<regCount, execVars, protoVars, transVars, secVars, cfgVars, envVars, errVars, gehVars, statVars>>

\* disable(name) / enable(name): throw 'Tool not found' when absent, else
\* set the enabled flag of the entry where it stands
SetEnabled(op, name, flag) ==
  /\ IF ~MapHas(registry, name)
       THEN /\ regCall' = RegCalled(op, name, "NotFound")
            /\ UNCHANGED registry
       ELSE /\ registry' = [i \in DOMAIN registry |->
                              IF registry[i].name = name
                                THEN [registry[i] EXCEPT !.enabled = flag]
                                ELSE registry[i]]
            /\ regCall' = RegCalled(op, name, "ok")
  /\ UNCHANGED <<regStamp, regCount, execVars, protoVars, transVars,
                 secVars, cfgVars, envVars, errVars, gehVars, statVars>>

RegistryDisable(name) == SetEnabled("disable", name, FALSE)

RegistryEnable(name) == SetEnabled("enable", name, TRUE)

ListSkips_Never(e) == FALSE

\* list: if (!tool.enabled) continue
ListSkips(e) == ~e.enabled

\* list(): the names of the definitions pushed, in the order of
\* this.tools.values()
RECURSIVE ListNames(_)
ListNames(m) ==
  IF m = <<>> THEN <<>>
  ELSE IF ListSkips(Head(m)) THEN ListNames(Tail(m))
  ELSE <<Head(m).name>> \o ListNames(Tail(m))

InitRegistry ==
  /\ registry = <<>>
  /\ regCall = NoRegCall
  /\ regStamp = [n \in RegNames |-> 0]
  /\ regCount = 0

NextRegistry ==
  \/ \E reg \in Registrations : RegistryRegister(reg)
  \/ \E n \in RegNames : RegistryUnregister(n)
  \/ \E n \in RegNames : RegistryDisable(n)
  \/ \E n \in RegNames : RegistryEnable(n)

\* ============================================== registry in full: claims

\* C21: tool names are unique within the registry: a register call with a
\* name that is already registered fails with AlreadyRegistered and leaves
\* the existing entry (description, schema, handler, enabled flag), like the
\* rest of the registry, unchanged.
C21_DuplicateNameRefused ==
  /\ [][(regCall'.op = "register" /\ MapHas(registry, regCall'.name)) =>
          /\ regCall'.result = "AlreadyRegistered"
          /\ registry' = registry]_vars
  /\ [](\A n \in RegNames : Cardinality(Positions(registry, n)) <= 1)

\* a disabled entry with description d1 on which a second registration of
\* its name has just been refused
C21_Witness ==
  /\ regCall = RegCalled("register", "read_file", "AlreadyRegistered")
  /\ MapHas(registry, "read_file")
  /\ MapGet(registry, "read_file").description = "d1"
  /\ ~MapGet(registry, "read_file").enabled

\* the names registered at present whose enabled flag is set
EnabledNow ==
  {n \in RegNames :
     regStamp[n] > 0 /\ MapHas(registry, n) /\ MapGet(registry, n).enabled}

\* the elements of S, the earliest registration first
ByRegistration(S) ==
  CHOOSE s \in [1..Cardinality(S) -> S] :
    /\ \A i, j \in 1..Cardinality(S) :
         i < j => regStamp[s[i]] < regStamp[s[j]]

\* C22: after any sequence of register, unregister, enable and disable
\* calls, list() returns exactly the registered tools whose enabled flag is
\* true, every one of them and no other, in the order of their
\* registration.
C22_ListIsEnabledInOrder ==
  /\ ListNames(registry) = ByRegistration(EnabledNow)
  /\ \A n \in RegNames : MapHas(registry, n) <=> regStamp[n] > 0

\* read_file registered, unregistered and registered again after
\* write_file: both enabled, write_file listed first
C22_Witness ==
  /\ regStamp["write_file"] = 2
  /\ regStamp["read_file"] = 3
  /\ ListNames(registry) = <<"write_file", "read_file">>

\* ============================================================ path sandbox

MaxDepth == 3                \* components of an input path

\* the file system of the symlink test: the project with a file and a .git
\* directory in it, a directory outside the project with a secret file, and
\* inside the project a symbolic link to that directory
Directories == {<<>>, <<"project">>, <<"project", ".git">>, <<"outside">>}
Files == {<<"project", "secret.txt">>, <<"outside", "secret.txt">>}
Links == {<<"project", "malicious-link">>}
LinkTarget(link) == <<"outside">>

Kind(p) ==
  IF p \in Directories THEN "dir"
  ELSE IF p \in Files THEN "file"
  ELSE IF p \in Links THEN "link"
  ELSE "none"

Components ==
  {"..", "project", ".git", "malicious-link", "outside", "secret.txt", "new"}

\* input paths: relative or absolute, of up to MaxDepth components
InputPaths ==
  [abs : BOOLEAN, parts : UNION {[1..n -> Components] : n \in 0..MaxDepth}]

\* path.normalize of an absolute path: '..' removes the component before
\* it and is dropped at the root
RECURSIVE Normalize(_, _)
Normalize(done, rest) ==
  IF rest = <<>> THEN done
  ELSE IF Head(rest) = ".."
    THEN Normalize(IF done = <<>> THEN <<>> ELSE AllButLast(done), Tail(rest))
  ELSE Normalize(Append(done, Head(rest)), Tail(rest))

\* fs.realpathSync.native: follows the symbolic links, component by
\* component; fails on a component that does not exist and below a file
RECURSIVE Realpath(_, _)
Realpath(done, rest) ==
  IF rest = <<>> THEN [ok |-> TRUE, path |-> done]
  ELSE LET next == Append(done, Head(rest)) IN
    IF Kind(next) = "dir" THEN Realpath(next, Tail(rest))
    ELSE IF Kind(next) = "link" THEN Realpath(LinkTarget(next), Tail(rest))
    ELSE IF Kind(next) = "file" /\ Tail(rest) = <<>>
      THEN [ok |-> TRUE, path |-> next]
    ELSE [ok |-> FALSE, path |-> <<>>]

ConfiguredRoot == <<"project">>

\* constructor: the configured root made absolute and resolved physically
ProjectRoot ==
  LET real == Realpath(<<>>, ConfiguredRoot) IN
    IF real.ok THEN real.path ELSE ConfiguredRoot

\* sanitizePath: path.resolve(projectRoot, inputPath), then path.normalize
SanitizePath(input) ==
  IF input.abs THEN Normalize(<<>>, input.parts)
  ELSE Normalize(<<>>, ProjectRoot \o input.parts)

AsInput(p) == [abs |-> TRUE, parts |-> p]

IsPrefix(a, b) == Len(a) <= Len(b) /\ SubSeq(b, 1, Len(a)) = a

\* path.dirname of an absolute path
Dirname(p) == IF p = <<>> THEN <<>> ELSE AllButLast(p)

\* isWithinProjectRoot: the target is the physical path, or the physical
\* path of the parent with the base name, or else the sanitized path; it
\* is within when path.relative(projectRoot, target) does not start with
\* '..'
Target(sanitized) ==
  LET real == Realpath(<<>>, sanitized)
      dirReal == Realpath(<<>>, Dirname(sanitized))
  IN IF real.ok THEN real.path
     ELSE IF dirReal.ok /\ sanitized # <<>>
       THEN Append(dirReal.path, Last(sanitized))
     ELSE sanitized

IsWithinProjectRoot(input) == IsPrefix(ProjectRoot, Target(SanitizePath(input)))

TraversalExempt_Never(input) == FALSE

\* detectPathTraversal: if (path.isAbsolute(inputPath)) return false
TraversalExempt(input) == input.abs

\* detectPathTraversal
DetectPathTraversal(enforce, input) ==
  IF TraversalExempt(input) THEN FALSE
  ELSE IF ~enforce THEN FALSE
  ELSE ~IsWithinProjectRoot(AsInput(SanitizePath(input)))

\* matchesBlockedPattern with the pattern '.git/**': a path below the .git
\* directory of the project root
MatchesBlockedPattern(input) ==
  LET sanitized == SanitizePath(input) IN
    /\ IsPrefix(ProjectRoot, sanitized)
    /\ Len(sanitized) >= Len(ProjectRoot) + 2
    /\ sanitized[Len(ProjectRoot) + 1] = ".git"

Rejected(code) == [ok |-> FALSE, code |-> code, value |-> <<>>]

\* validatePath
ValidatePath(enforce, input) ==
  IF DetectPathTraversal(enforce, input) THEN Rejected("PATH_TRAVERSAL")
  ELSE LET sanitized == AsInput(SanitizePath(input)) IN
    IF enforce /\ ~IsWithinProjectRoot(sanitized)
      THEN Rejected("OUTSIDE_PROJECT_ROOT")
    ELSE IF MatchesBlockedPattern(sanitized) THEN Rejected("BLOCKED_PATTERN")
    ELSE [ok |-> TRUE, code |-> "none", value |-> sanitized.parts]

Pending == [ok |-> FALSE, code |-> "pending", value |-> <<>>]

\* no validatePath call is under way
NoValidation ==
  [enforce |-> TRUE, input |-> AsInput(<<>>), result |-> Rejected("none")]

\* the validatePath call that is under way returns
ValidatePathCall ==
  /\ validation.result = Pending
  /\ validation' = [validation EXCEPT
                      !.result = ValidatePath(validation.enforce,
                                              validation.input)]
  /\ UNCHANGED <<execVars, protoVars, transVars, regVars, cfgVars, envVars, errVars, gehVars, statVars>>

InitSandbox == validation = NoValidation

\* a validator built with enforceProjectRoot set or not, and the input of
\* its validatePath call
DrawValidation ==
  validation \in [enforce : BOOLEAN, input : InputPaths, result : {Pending}]

NextSandbox == ValidatePathCall

\* ==================================================== path sandbox: claims

\* where an access to the absolute path p lands: the symbolic links on the
\* way are followed, and what does not exist yet is created below the
\* place reached
RECURSIVE Physical(_, _)
Physical(done, rest) ==
  IF rest = <<>> THEN done
  ELSE LET next == Append(done, Head(rest)) IN
    IF Kind(next) = "link" THEN Physical(LinkTarget(next), Tail(rest))
    ELSE IF Kind(next) = "none" THEN next \o Tail(rest)
    ELSE Physical(next, Tail(rest))

PhysicalRoot == Physical(<<>>, ConfiguredRoot)

\* C23: every path accepted by validatePath (of a validator that enforces
\* the project root) lies within the physical project root, also when the
\* input reaches outside through a symbolic link located inside the root.
C23_AcceptedWithinPhysicalRoot ==
  (validation.enforce /\ validation.result.ok)
    => IsPrefix(PhysicalRoot, Physical(<<>>, validation.result.value))

\* the normalised form of the input resolves outside the root
FallsOutside(input) ==
  ~IsPrefix(PhysicalRoot, Physical(<<>>, SanitizePath(input)))

DEFAULT_CONFIG ==
  [level |-> "info", maxConcurrentRequests |-> 10, requestTimeoutMs |-> 5000,
   enforceProjectRoot |-> TRUE, allowDestructiveOperations |-> FALSE]

\* the configurations a valid file can hold
FileConfigs ==
  [level : {"info", "error"}, maxConcurrentRequests : {10, 20},
   requestTimeoutMs : {5000}, enforceProjectRoot : BOOLEAN,
   allowDestructiveOperations : BOOLEAN]

Unset == ""                  \* a variable that is not set, or set to nothing
NoText == <<>>               \* the same, where the text is kept by character

Digits == {"0", "1", "2", "5", "7"}

DigitValue(d) ==
  CASE d = "0" -> 0 [] d = "1" -> 1 [] d = "2" -> 2 [] d = "5" -> 5
    [] d = "7" -> 7

\* values of MCP_LOG_LEVEL
LevelTexts == {Unset, "debug", "WARN", "invalid_level"}

\* values of MCP_MAX_CONCURRENT_REQUESTS and MCP_REQUEST_TIMEOUT_MS, as
\* sequences of characters
NumberTexts ==
  {NoText, <<"5", "0">>, <<"0">>, <<"1", "0", "1">>, <<"x">>,
   <<"5", "0", "x">>, <<"2", "0", "0", "0">>, <<"7", "0", "0", "0", "0">>}

\* values of MCP_ENFORCE_PROJECT_ROOT and MCP_ALLOW_DESTRUCTIVE_OPERATIONS
FlagTexts == {Unset, "true", "false", "TRUE", "yes"}

Environments ==
  [MCP_LOG_LEVEL : LevelTexts,
   MCP_MAX_CONCURRENT_REQUESTS : NumberTexts \ {<<"2", "0", "0", "0">>},
   MCP_REQUEST_TIMEOUT_MS : NumberTexts \ {<<"1", "0", "1">>},
   MCP_ENFORCE_PROJECT_ROOT : FlagTexts,
   MCP_ALLOW_DESTRUCTIVE_OPERATIONS : FlagTexts]

\* process.env without any of the five variables
NoEnv ==
  [MCP_LOG_LEVEL |-> Unset, MCP_MAX_CONCURRENT_REQUESTS |-> NoText,
   MCP_REQUEST_TIMEOUT_MS |-> NoText, MCP_ENFORCE_PROJECT_ROOT |-> Unset,
   MCP_ALLOW_DESTRUCTIVE_OPERATIONS |-> Unset]

ToLowerCase(text) == IF text = "WARN" THEN "warn" ELSE text

LogLevels == {"debug", "info", "warn", "error"}

NaN == -1                    \* stands for NaN: no value in use is negative

\* parseInt(text, 10): the value of the longest prefix of digits, NaN when
\* the text does not start with a digit
RECURSIVE ParseDigits(_, _)
ParseDigits(acc, text) ==
  IF text = <<>> \/ Head(text) \notin Digits THEN acc
  ELSE ParseDigits(10 * acc + DigitValue(Head(text)), Tail(text))

ParseInt(text) ==
  IF text = <<>> \/ Head(text) \notin Digits THEN NaN
  ELSE ParseDigits(0, text)

\* the override of a number is applied when parseInt gives a value within
\* the range
NumberApplies(text, low, high) ==
  /\ text # NoText
  /\ ParseInt(text) # NaN
  /\ ParseInt(text) >= low
  /\ ParseInt(text) <= high

\* a flag that is set is applied whatever its text
FlagApplies(text) == text # Unset

\* ConfigurationManager.mergeEnvironmentVariables
MergeEnvironmentVariables(cfg, env) ==
  [level |->
     IF /\ env.MCP_LOG_LEVEL # Unset
        /\ ToLowerCase(env.MCP_LOG_LEVEL) \in LogLevels
     THEN ToLowerCase(env.MCP_LOG_LEVEL) ELSE cfg.level,
   maxConcurrentRequests |->
     IF NumberApplies(env.MCP_MAX_CONCURRENT_REQUESTS, 1, 100)
     THEN ParseInt(env.MCP_MAX_CONCURRENT_REQUESTS)
     ELSE cfg.maxConcurrentRequests,
   requestTimeoutMs |->
     IF NumberApplies(env.MCP_REQUEST_TIMEOUT_MS, 1000, 60000)
     THEN ParseInt(env.MCP_REQUEST_TIMEOUT_MS)
     ELSE cfg.requestTimeoutMs,
   enforceProjectRoot |->
     IF FlagApplies(env.MCP_ENFORCE_PROJECT_ROOT)
     THEN env.MCP_ENFORCE_PROJECT_ROOT = "true"
     ELSE cfg.enforceProjectRoot,
   allowDestructiveOperations |->
     IF FlagApplies(env.MCP_ALLOW_DESTRUCTIVE_OPERATIONS)
     THEN env.MCP_ALLOW_DESTRUCTIVE_OPERATIONS = "true"
     ELSE cfg.allowDestructiveOperations]

NotLoaded == <<>>            \* no snapshot: the load has not returned

\* loadConfig() of a file that holds the valid configuration overlay.file,
\* in the environment overlay.env
LoadOverlay ==
  /\ overlay.result = NotLoaded
  /\ overlay' = [overlay EXCEPT
                   !.result = <<MergeEnvironmentVariables(overlay.file,
                                                          overlay.env)>>]
  /\ UNCHANGED <<execVars, protoVars, transVars, regVars, secVars, cfgVars,
                 errVars, gehVars, statVars>>

InitOverlay ==
  overlay = [file |-> DEFAULT_CONFIG, env |-> NoEnv, result |-> NotLoaded]

\* the file and the environment of one load
DrawOverlay ==
  overlay \in [file : FileConfigs, env : Environments, result : {NotLoaded}]

NextOverlay == LoadOverlay

\* ========================================= configuration: overlay, claims

\* the text is a decimal number
RECURSIVE AllDigits(_)
AllDigits(text) ==
  text = <<>> \/ (Head(text) \in Digits /\ AllDigits(Tail(text)))

\* a value that is set and is malformed or out of range for its key
BadLevel(text) == text # Unset /\ ToLowerCase(text) \notin LogLevels
BadNumber(text, low, high) ==
  /\ text # NoText
  /\ \/ ~AllDigits(text)
     \/ ParseDigits(0, text) < low
     \/ ParseDigits(0, text) > high
BadFlag(text) == text # Unset /\ text \notin {"true", "false"}

Loaded == overlay.result[1]

\* C27: an override whose value is malformed or out of range is ignored:
\* for each of the five keys the loaded snapshot keeps the value of the
\* file.
C27_BadOverrideIgnored ==
  overlay.result # NotLoaded =>
    /\ BadLevel(overlay.env.MCP_LOG_LEVEL)
         => Loaded.level = overlay.file.level
    /\ BadNumber(overlay.env.MCP_MAX_CONCURRENT_REQUESTS, 1, 100)
         => Loaded.maxConcurrentRequests = overlay.file.maxConcurrentRequests
    /\ BadNumber(overlay.env.MCP_REQUEST_TIMEOUT_MS, 1000, 60000)
         => Loaded.requestTimeoutMs = overlay.file.requestTimeoutMs
    /\ BadFlag(overlay.env.MCP_ENFORCE_PROJECT_ROOT)
         => Loaded.enforceProjectRoot = overlay.file.enforceProjectRoot
    /\ BadFlag(overlay.env.MCP_ALLOW_DESTRUCTIVE_OPERATIONS)
         => Loaded.allowDestructiveOperations
              = overlay.file.allowDestructiveOperations

\* ================================================== configuration manager

\* what the configuration file holds: nothing (no file), the default
\* configuration, another valid configuration, JSON that fails the schema,
\* text that is not JSON, or a file that cannot be read
FileContents ==
  {"missing", "default", "custom", "invalid", "garbage", "unreadable"}

CustomConfig ==
  [level |-> "error", maxConcurrentRequests |-> 20, requestTimeoutMs |-> 5000,
   enforceProjectRoot |-> TRUE, allowDestructiveOperations |-> TRUE]

NoConfig == <<>>             \* config before the first load

NotRead == [read |-> FALSE, ok |-> FALSE, value |-> NoConfig, error |-> ""]

Resolves(cfg) == [read |-> TRUE, ok |-> TRUE, value |-> <<cfg>>, error |-> ""]

Rejects(msg) == [read |-> TRUE, ok |-> FALSE, value |-> NoConfig, error |-> msg]

\* the body of the load: a missing file gives the default configuration,
\* a file that cannot be read, does not parse or does not validate makes
\* the load fail,
\* a valid one gives its configuration under the overrides of the
\* environment (none is set here)
LoadOutcome(content) ==
  CASE content = "missing" -> Resolves(DEFAULT_CONFIG)
    [] content = "unreadable" -> Rejects("EACCES")
    [] content = "garbage" -> Rejects("SyntaxError")
    [] content = "invalid" -> Rejects("Configuration validation failed")
    [] content = "default" ->
         Resolves(MergeEnvironmentVariables(DEFAULT_CONFIG, NoEnv))
    [] content = "custom" ->
         Resolves(MergeEnvironmentVariables(CustomConfig, NoEnv))

Loaders == 1..MaxLoads

IdleLoader == [pc |-> "idle", flight |-> 0, result |-> NotRead]

\* the single-flight guard of loadConfig
JoinsFlight_Never == FALSE
JoinsFlight == loading # 0

\* loadConfig() up to its return: the promise of the load in flight, or
\* that of a load it starts
EnterLoad ==
  IF JoinsFlight
    THEN UNCHANGED <<loading, loadRead, flights>>
    ELSE /\ flights' = flights + 1
         /\ loading' = flights + 1
         /\ loadRead' = NotRead

\* a client calls loadConfig() and awaits the promise
LoadConfig(c) ==
  /\ loaders[c].pc = "idle"
  /\ EnterLoad
  /\ loaders' = [loaders EXCEPT ![c] = [pc |-> "waiting", flight |-> loading',
                                        result |-> NotRead]]
  /\ UNCHANGED <<cfgFile, config, reads, reloads, watcher, changeCallbacks,
                 callbackCount, invocations, timers, reloadTimeout, changes,
                 retired, lateReload>>
  /\ UNCHANGED <<execVars, protoVars, transVars, regVars, secVars, envVars, errVars, gehVars, statVars>>

\* the load in flight reads the file (fs.access, fs.readFile); when there
\* is none it writes the default configuration
ReadConfigFile ==
  /\ loading # 0
  /\ ~loadRead.read
  /\ loadRead' = LoadOutcome(cfgFile)
  /\ reads' = IF cfgFile = "missing" THEN reads ELSE reads + 1
  /\ cfgFile' = IF cfgFile = "missing" THEN "default" ELSE cfgFile
  /\ UNCHANGED <<config, loading, flights, loaders, reloads, watcher,
                 changeCallbacks, callbackCount, invocations, timers,
                 reloadTimeout, changes, retired, lateReload>>
  /\ UNCHANGED <<execVars, protoVars, transVars, regVars, secVars, envVars, errVars, gehVars, statVars>>

\* the catch branch of the reload notifies the callbacks
FallbackNotifies_Never == FALSE
FallbackNotifies == TRUE

\* what the reloads that awaited the load hand to the callbacks: the new
\* snapshot, or the default configuration when the load failed
ReloadSnapshot(outcome) ==
  IF outcome.ok THEN outcome.value[1] ELSE DEFAULT_CONFIG

ReloadNotifies(outcome) == outcome.ok \/ FallbackNotifies

\* the snapshot after the load: the result is assigned to this.config once,
\* after the body has succeeded; a failure leaves the field alone
LoadStores_Always(outcome, current) == outcome.value
LoadStores(outcome, current) ==
  IF outcome.ok THEN outcome.value ELSE current

RECURSIVE Copies(_, _)
Copies(n, x) == IF n = 0 THEN <<>> ELSE <<x>> \o Copies(n - 1, x)

Range(seq) == {seq[i] : i \in 1..Len(seq)}

\* the load in flight settles: it stores the snapshot and clears
\* loadingPromise, the clients that awaited it get its result, and each
\* reload that awaited it stores its snapshot, invokes the callbacks and
\* clears reloadTimeout
LoadSettles ==
  /\ loading # 0
  /\ loadRead.read
  /\ config' = IF ~loadRead.ok /\ reloads > 0 THEN <<DEFAULT_CONFIG>>
               ELSE LoadStores(loadRead, config)
  /\ loading' = 0
  /\ loadRead' = NotRead
  /\ loaders' = [c \in Loaders |->
                   IF loaders[c].pc = "waiting" /\ loaders[c].flight = loading
                     THEN [loaders[c] EXCEPT !.pc = "done", !.result = loadRead]
                     ELSE loaders[c]]
  /\ invocations' =
       [k \in DOMAIN invocations |->
          IF k \in Range(changeCallbacks) /\ ReloadNotifies(loadRead)
            THEN invocations[k] \o Copies(reloads, ReloadSnapshot(loadRead))
            ELSE invocations[k]]
  /\ reloadTimeout' = IF reloads > 0 THEN 0 ELSE reloadTimeout
  /\ lateReload' = (lateReload \/ (reloads > 0 /\ retired # {}))
  /\ reloads' = 0
  /\ UNCHANGED <<cfgFile, flights, reads, watcher, changeCallbacks,
                 callbackCount, timers, changes, retired>>
  /\ UNCHANGED <<execVars, protoVars, transVars, regVars, secVars, envVars, errVars, gehVars, statVars>>

\* watchConfig(callback): registers the callback and creates the watcher
\* unless there is one
WatchConfig ==
  /\ callbackCount < MaxCallbacks
  /\ callbackCount' = callbackCount + 1
  /\ changeCallbacks' = Append(changeCallbacks, callbackCount + 1)
  /\ watcher' = IF watcher = "none" THEN "active" ELSE watcher
  /\ UNCHANGED <<cfgFile, config, loading, loadRead, flights, reads, loaders,
                 reloads, invocations, timers, reloadTimeout, changes,
                 retired, lateReload>>
  /\ UNCHANGED <<execVars, protoVars, transVars, regVars, secVars, envVars, errVars, gehVars, statVars>>

\* the file is written; a watcher that is active reports the change, and
\* its listener replaces the debounce timer
FileChanges(content) ==
  /\ changes < MaxChanges
  /\ changes' = changes + 1
  /\ cfgFile' = content
  /\ IF watcher = "active"
       THEN /\ timers' = (timers \ {reloadTimeout}) \cup {changes + 1}
            /\ reloadTimeout' = changes + 1
       ELSE UNCHANGED <<timers, reloadTimeout>>
  /\ UNCHANGED <<config, loading, loadRead, flights, reads, loaders, reloads,
                 watcher, changeCallbacks, callbackCount, invocations,
                 retired, lateReload>>
  /\ UNCHANGED <<execVars, protoVars, transVars, regVars, secVars, envVars, errVars, gehVars, statVars>>

\* a debounce timer fires: its callback calls loadConfig() and awaits it
ReloadTimerFires(t) ==
  /\ t \in timers
  /\ timers' = timers \ {t}
  /\ EnterLoad
  /\ reloads' = reloads + 1
  /\ UNCHANGED <<cfgFile, config, reads, loaders, watcher, changeCallbacks,
                 callbackCount, invocations, reloadTimeout, changes, retired,
                 lateReload>>
  /\ UNCHANGED <<execVars, protoVars, transVars, regVars, secVars, envVars, errVars, gehVars, statVars>>

\* the last statement of stopWatching
StopClearsCallbacks_Never == FALSE
StopClearsCallbacks == TRUE

\* stopWatching() has completed
StopCompleted ==
  /\ changeCallbacks' = IF StopClearsCallbacks THEN <<>> ELSE changeCallbacks
  /\ retired' = retired \cup Range(changeCallbacks)

\* stopWatching() up to its await: it clears the debounce timer and closes
\* the watcher, which reports nothing from then on; without a watcher it
\* completes at once
StopWatching ==
  /\ timers' = timers \ {reloadTimeout}
  /\ reloadTimeout' = 0
  /\ IF watcher = "none"
       THEN StopCompleted /\ UNCHANGED watcher
       ELSE watcher' = "closing" /\ UNCHANGED <<changeCallbacks, retired>>
  /\ UNCHANGED <<cfgFile, config, loading, loadRead, flights, reads, loaders,
                 reloads, callbackCount, invocations, changes, lateReload>>
  /\ UNCHANGED <<execVars, protoVars, transVars, regVars, secVars, envVars, errVars, gehVars, statVars>>

\* watcher.close() has resolved: stopWatching() drops the watcher and the
\* callbacks
WatcherClosed ==
  /\ watcher = "closing"
  /\ watcher' = "none"
  /\ StopCompleted
  /\ UNCHANGED <<cfgFile, config, loading, loadRead, flights, reads, loaders,
                 reloads, callbackCount, invocations, timers, reloadTimeout,
                 changes, lateReload>>
  /\ UNCHANGED <<execVars, protoVars, transVars, regVars, secVars, envVars, errVars, gehVars, statVars>>

InitConfig ==
  /\ cfgFile = "custom"
  /\ config = NoConfig
  /\ loading = 0
  /\ loadRead = NotRead
  /\ flights = 0
  /\ reads = 0
  /\ loaders = [c \in Loaders |-> IdleLoader]
  /\ reloads = 0
  /\ watcher = "none"
  /\ changeCallbacks = <<>>
  /\ callbackCount = 0
  /\ invocations = [k \in 1..MaxCallbacks |-> <<>>]
  /\ timers = {}
  /\ reloadTimeout = 0
  /\ changes = 0
  /\ retired = {}
  /\ lateReload = FALSE

\* clients that load while the file is rewritten
NextLoad ==
  \/ \E c \in Loaders : LoadConfig(c)
  \/ ReadConfigFile
  \/ LoadSettles
  \/ \E content \in FileContents : FileChanges(content)

\* a watched file: hot reloads and the end of the watch
NextWatch ==
  \/ WatchConfig
  \/ \E content \in FileContents \ {"missing"} : FileChanges(content)
  \/ \E t \in 1..MaxChanges : ReloadTimerFires(t)
  \/ ReadConfigFile
  \/ LoadSettles
  \/ StopWatching
  \/ WatcherClosed

\* ========================================== configuration manager: claims

\* C25: concurrent loadConfig() calls share one load in flight: a call made
\* while a load is in flight starts no other one, the file is read once
\* per load, and all the callers of one load get the same snapshot or the
\* same failure.
C25_ConcurrentLoadsShareOne ==
  /\ [][\A c \in Loaders :
          (loading # 0 /\ loaders[c].pc = "idle" /\ loaders'[c].pc = "waiting")
            => (flights' = flights /\ loaders'[c].flight = loading)]_vars
  /\ [](/\ reads <= flights
        /\ \A c \in Loaders : loaders[c].pc = "waiting"
                                => loaders[c].flight = loading
        /\ \A c, d \in Loaders :
             (loaders[c].pc = "done" /\ loaders[d].pc = "done"
                /\ loaders[c].flight = loaders[d].flight)
               => loaders[c].result = loaders[d].result)

\* two callers were served by one load and one read of the file
C25_Witness ==
  /\ flights = 1
  /\ reads = 1
  /\ loaders[1].pc = "done"
  /\ loaders[2].pc = "done"
  /\ loaders[1].result = loaders[2].result
  /\ loaders[1].result.ok

\* the step is the end of a load that failed and that hot reloads awaited
FailedReload == loading # 0 /\ loading' = 0 /\ ~loadRead.ok /\ reloads > 0

C28_NoCallbackAfterStop ==
  [][\A k \in retired : invocations'[k] = invocations[k]]_vars

\* a reload that was under way has completed after the stop
C28_Witness ==
  /\ lateReload
  /\ retired # {}
  /\ watcher = "none"
  /\ loading = 0

C37_OneTimerPerSeries == Cardinality(timers) <= 1

\* ========================================================== error handler

\* JSONRPCErrorCode
INVALID_REQUEST == -32600
INVALID_PARAMS == -32602
INTERNAL_ERROR == -32603

\* ErrorCode
ErrorCodes ==
  {"VALIDATION_ERROR", "SECURITY_ERROR", "NOT_FOUND", "INFRASTRUCTURE_ERROR",
   "TIMEOUT_ERROR", "RESOURCE_EXHAUSTED", "BUSINESS_RULE_VIOLATION",
   "INTERNAL_ERROR"}

\* the subclasses of MCPError, each with the code its constructor passes on
DomainClasses ==
  {"ValidationError", "SecurityError", "NotFoundError", "InfrastructureError",
   "TimeoutError", "ResourceExhaustedError", "BusinessRuleViolationError"}

CodeOfClass(class) ==
  CASE class = "ValidationError" -> "VALIDATION_ERROR"
    [] class = "SecurityError" -> "SECURITY_ERROR"
    [] class = "NotFoundError" -> "NOT_FOUND"
    [] class = "InfrastructureError" -> "INFRASTRUCTURE_ERROR"
    [] class = "TimeoutError" -> "TIMEOUT_ERROR"
    [] class = "ResourceExhaustedError" -> "RESOURCE_EXHAUSTED"
    [] class = "BusinessRuleViolationError" -> "BUSINESS_RULE_VIOLATION"

\* the errors handed to the handler: an instance of a subclass, an
\* instance of MCPError itself with any code, or an error that is no
\* MCPError and has no code
ThrownErrors ==
  {[class |-> c, code |-> CodeOfClass(c)] : c \in DomainClasses}
    \cup [class : {"MCPError"}, code : ErrorCodes]
    \cup [class : {"Error", "TypeError"}, code : {"none"}]

\* error instanceof cls
InstanceOf(error, cls) ==
  \/ error.class = cls
  \/ cls = "MCPError" /\ error.class \in DomainClasses
  \/ cls = "Error"

\* request ids: null, a number or a string
NullId == <<"null", "">>

RequestIds ==
  {NullId, <<"number", "0">>, <<"number", "7">>, <<"string", "7">>,
   <<"string", "">>}

\* the second branch of mapToJSONRPCCode
MapsToInvalidRequest_Never(error) == FALSE
MapsToInvalidRequest(error) ==
  \/ InstanceOf(error, "SecurityError")
  \/ InstanceOf(error, "NotFoundError")
  \/ InstanceOf(error, "BusinessRuleViolationError")

\* ErrorHandler.mapToJSONRPCCode
MapToJSONRPCCode(error) ==
  IF InstanceOf(error, "ValidationError") THEN INVALID_PARAMS
  ELSE IF MapsToInvalidRequest(error) THEN INVALID_REQUEST
  ELSE IF \/ InstanceOf(error, "InfrastructureError")
          \/ InstanceOf(error, "TimeoutError")
          \/ InstanceOf(error, "ResourceExhaustedError")
    THEN INTERNAL_ERROR
  ELSE INTERNAL_ERROR

\* the id field of the response
ResponseId_Null(requestId) == NullId
ResponseId(requestId) == requestId

\* ErrorHandler.handleMCPError, with buildErrorData reduced to the error
\* code and to whether the stack is included
HandleMCPError(error, requestId, production) ==
  [jsonrpc |-> "2.0", id |-> ResponseId(requestId),
   code |-> MapToJSONRPCCode(error), errorCode |-> error.code,
   stack |-> ~production]

\* ErrorHandler.handleGenericError
HandleGenericError(error, requestId, production) ==
  [jsonrpc |-> "2.0", id |-> ResponseId(requestId), code |-> INTERNAL_ERROR,
   errorCode |-> "UNKNOWN_ERROR", stack |-> ~production]

\* ErrorHandler.handleError
HandleErrorResponse(error, requestId, production) ==
  IF InstanceOf(error, "MCPError")
    THEN HandleMCPError(error, requestId, production)
    ELSE HandleGenericError(error, requestId, production)

\* the response of a call that has not returned yet
NoResponse ==
  [jsonrpc |-> "none", id |-> NullId, code |-> 0, errorCode |-> "none",
   stack |-> FALSE]

\* the handleError call that is under way returns
HandleError ==
  /\ errCall.response = NoResponse
  /\ errCall' = [errCall EXCEPT
                   !.response = HandleErrorResponse(errCall.error,
                                                    errCall.requestId,
                                                    errCall.production)]
  /\ UNCHANGED <<execVars, protoVars, transVars, regVars, secVars, cfgVars,
                 envVars, gehVars, statVars>>

\* no call is under way
NoErrorCall ==
  [error |-> [class |-> "Error", code |-> "none"], requestId |-> NullId,
   production |-> TRUE, response |-> [NoResponse EXCEPT !.jsonrpc = "idle"]]

InitErrors == errCall = NoErrorCall

\* the error and the request id of one handleError call, and NODE_ENV
DrawError ==
  errCall \in [error : ThrownErrors, requestId : RequestIds,
               production : BOOLEAN, response : {NoResponse}]

NextErrors == HandleError

\* ================================================== error handler: claims

Responded == errCall.response.jsonrpc = "2.0"

\* C29: the JSON-RPC code of an error response is a fixed function of the
\* kind of the error: -32602 for validation errors, -32600 for security,
\* not-found and business-rule errors, -32603 for timeout,
\* resource-exhausted, infrastructure and every other error.
C29_CodeIsFunctionOfKind ==
  Responded =>
    errCall.response.code =
      CASE errCall.error.class = "ValidationError" -> -32602
        [] errCall.error.class \in {"SecurityError", "NotFoundError",
                                    "BusinessRuleViolationError"} -> -32600
        [] OTHER -> -32603

\* a security error answered with -32600
C29_Witness ==
  /\ Responded
  /\ errCall.error.class = "SecurityError"
  /\ errCall.response.code = -32600

\* C30: every error response carries exactly the id of its request, null
\* included, for domain errors and for generic errors alike.
C30_ResponseCarriesRequestId ==
  Responded => errCall.response.id = errCall.requestId

\* a generic error of a request without id, answered with the id null
C30_Witness ==
  /\ Responded
  /\ errCall.requestId = NullId
  /\ errCall.error.class = "TypeError"
  /\ errCall.response.id = NullId
  /\ errCall.response.errorCode = "UNKNOWN_ERROR"

\* ==================================================== global error handler

\* what the shutdown callback does: there is none, it returns, it throws,
\* or it returns a promise that resolves or rejects later
CallbackKinds == {"none", "returns", "throws", "resolves", "rejects"}

FaultEvents == {"uncaughtException", "unhandledRejection"}

OwnListener(id) == [owner |-> "handler", id |-> id]

\* a listener that another part of the program has installed
OtherListener == [owner |-> "other", id |-> 0]

RECURSIVE Without(_, _)
Without(list, l) ==
  IF list = <<>> THEN <<>>
  ELSE IF Head(list) = l THEN Tail(list)
  ELSE <<Head(list)>> \o Without(Tail(list), l)

\* GlobalErrorHandler.cleanup: process.off for each listener that is set
Cleanup(g) ==
  [g EXCEPT
     !.uncaughtException =
        IF g.uncaught # 0 THEN Without(@, OwnListener(g.uncaught)) ELSE @,
     !.uncaught = 0,
     !.unhandledRejection =
        IF g.rejection # 0 THEN Without(@, OwnListener(g.rejection)) ELSE @,
     !.rejection = 0]

\* the first statement of setup
SetupStartsFrom_AsIs(g) == g
SetupStartsFrom(g) == Cleanup(g)

\* the process has not exited
Alive == geh.exits = <<>>

\* GlobalErrorHandler.setup
Setup ==
  /\ Alive
  /\ geh.setups < MaxSetups
  /\ LET g == SetupStartsFrom(geh)
         id == geh.setups + 1
     IN geh' = [g EXCEPT
                  !.setups = id,
                  !.uncaught = id,
                  !.uncaughtException = Append(@, OwnListener(id)),
                  !.rejection = id,
                  !.unhandledRejection = Append(@, OwnListener(id))]
  /\ UNCHANGED <<execVars, protoVars, transVars, regVars, secVars, cfgVars,
                 envVars, errVars, statVars>>

\* GlobalErrorHandler.cleanup, called by the program
CleanupCall ==
  /\ Alive
  /\ geh' = Cleanup(geh)
  /\ UNCHANGED <<execVars, protoVars, transVars, regVars, secVars, cfgVars,
                 envVars, errVars, statVars>>

\* GlobalErrorHandler.setShutdownCallback
SetShutdownCallback(kind) ==
  /\ Alive
  /\ geh' = [geh EXCEPT !.callback = kind]
  /\ UNCHANGED <<execVars, protoVars, transVars, regVars, secVars, cfgVars,
                 envVars, errVars, statVars>>

\* performGracefulShutdown awaits what the callback returns when that is a
\* promise
AwaitsCallback_Never(kind) == FALSE
AwaitsCallback(kind) == kind \in {"resolves", "rejects"}

\* the callback has finished when it returns, unless it returned a promise
Shutdown(kind) ==
  [kind |-> kind,
   pc |-> IF kind \in {"resolves", "rejects"} THEN "pending" ELSE "finished"]

\* the listeners of the handler on the event, in the order of installation
RECURSIVE OwnOn(_)
OwnOn(list) ==
  IF list = <<>> THEN <<>>
  ELSE IF Head(list).owner = "handler"
    THEN <<Head(list)>> \o OwnOn(Tail(list))
  ELSE OwnOn(Tail(list))

\* process.exit(1) by the shutdown i, unless the process has exited
Exit(g, i) ==
  IF g.exits = <<>> THEN [g EXCEPT !.exits = <<1>>, !.exitedBy = i] ELSE g

\* handleUncaughtException / handleUnhandledRejection of one listener: the
\* callback is invoked; the exit follows at once unless the callback is
\* awaited
RECURSIVE HandleFault(_, _)
HandleFault(g, n) ==
  IF n = 0 THEN g
  ELSE LET started == [g EXCEPT !.shutdowns = Append(@, Shutdown(g.callback))]
           after == HandleFault(started, n - 1)
       IN IF AwaitsCallback(g.callback) THEN after
          ELSE Exit(after, Len(started.shutdowns))

\* the process emits the event: each listener of the handler runs
Fault(event) ==
  /\ Alive
  /\ Len(geh.shutdowns) < MaxFaults
  /\ OwnOn(geh[event]) # <<>>
  /\ geh' = HandleFault(geh, Len(OwnOn(geh[event])))
  /\ UNCHANGED <<execVars, protoVars, transVars, regVars, secVars, cfgVars,
                 envVars, errVars, statVars>>

\* the promise that the callback returned settles: the shutdown that
\* awaited it goes on to process.exit(1)
CallbackSettles(i) ==
  /\ Alive
  /\ i \in 1..Len(geh.shutdowns)
  /\ geh.shutdowns[i].pc = "pending"
  /\ geh' = Exit([geh EXCEPT !.shutdowns[i].pc = "finished"], i)
  /\ UNCHANGED <<execVars, protoVars, transVars, regVars, secVars, cfgVars,
                 envVars, errVars, statVars>>

InitGlobal ==
  geh = [uncaught |-> 0, rejection |-> 0,
         uncaughtException |-> <<OtherListener>>,
         unhandledRejection |-> <<>>,
         setups |-> 0, callback |-> "none", shutdowns |-> <<>>,
         exits |-> <<>>, exitedBy |-> 0]

NextGlobal ==
  \/ Setup
  \/ CleanupCall
  \/ \E kind \in CallbackKinds \ {"none"} : SetShutdownCallback(kind)
  \/ \E event \in FaultEvents : Fault(event)
  \/ \E i \in 1..MaxFaults : CallbackSettles(i)

\* ============================================ global error handler: claims

OwnCount(list) == Len(OwnOn(list))

\* C31: installing the process-wide hook is idempotent: after any number
\* of setup() calls exactly one uncaughtException listener and one
\* unhandledRejection listener of the handler are installed, the ones of
\* the last setup, and the listeners of others stay.
C31_SetupIdempotent ==
  /\ [][geh'.setups # geh.setups =>
          /\ OwnOn(geh'.uncaughtException) = <<OwnListener(geh'.setups)>>
          /\ OwnOn(geh'.unhandledRejection) = <<OwnListener(geh'.setups)>>]_vars
  /\ [](/\ OwnCount(geh.uncaughtException) = IF geh.uncaught # 0 THEN 1 ELSE 0
        /\ OwnCount(geh.unhandledRejection) = IF geh.rejection # 0 THEN 1 ELSE 0
        /\ \E i \in 1..Len(geh.uncaughtException) :
             geh.uncaughtException[i] = OtherListener)

\* setup() was called several times and one listener of the handler, that
\* of the last call, is installed on each event
C31_Witness ==
  /\ geh.setups = MaxSetups
  /\ geh.uncaughtException = <<OtherListener, OwnListener(MaxSetups)>>
  /\ geh.unhandledRejection = <<OwnListener(MaxSetups)>>

\* C32: on an uncaught exception or an unhandled rejection the shutdown
\* callback that is set is invoked; the shutdown exits the process with
\* code 1 only once its callback has finished, and as soon as it has, also
\* when the callback throws or rejects.
C32_ShutdownThenExit ==
  /\ [][\A i \in 1..Len(geh'.shutdowns) :
          i > Len(geh.shutdowns) => geh'.shutdowns[i].kind = geh.callback]_vars
  /\ [](/\ geh.exits # <<>> =>
             /\ geh.exits = <<1>>
             /\ geh.exitedBy \in 1..Len(geh.shutdowns)
             /\ geh.shutdowns[geh.exitedBy].pc = "finished"
        /\ \A i \in 1..Len(geh.shutdowns) :
             geh.shutdowns[i].pc = "finished" => geh.exits = <<1>>)

\* the process has exited with code 1 after a callback that rejected
C32_Witness ==
  /\ geh.exits = <<1>>
  /\ geh.exitedBy > 0
  /\ geh.shutdowns[geh.exitedBy] = [kind |-> "rejects", pc |-> "finished"]

\* ======================================================== model statistics

\* the models and what 1000 input and 1000 output tokens cost with each, in
\* thousandths of a dollar; a model without cost information
ModelNames == {"gpt-4", "claude-3-opus", "local"}

HasCost(m) == m # "local"

CostPer1kTokens(m) ==
  CASE m = "gpt-4" -> [input |-> 30, output |-> 60]
    [] m = "claude-3-opus" -> [input |-> 15, output |-> 75]
    [] OTHER -> [input |-> 0, output |-> 0]

TokenCounts == {0, 1000, 2000}

UsageRecords ==
  [modelName : ModelNames, inputTokens : TokenCounts \ {0},
   outputTokens : TokenCounts \ {2000}]

NoStatistics == [called |-> FALSE, totalSessions |-> 0, estimatedCost |-> 0]

\* ModelInfoTool.trackTokenUsage
TrackTokenUsage(record) ==
  /\ Len(stats.usageRecords) < MaxRecords
  /\ stats' = [stats EXCEPT !.usageRecords = Append(@, record),
                            !.last = NoStatistics]
  /\ UNCHANGED <<execVars, protoVars, transVars, regVars, secVars, cfgVars,
                 envVars, errVars, gehVars>>

\* the user selects another model, or the model API stops answering
SwitchModel(m) ==
  /\ m # stats.current
  /\ stats' = [stats EXCEPT !.current = m, !.last = NoStatistics]
  /\ UNCHANGED <<execVars, protoVars, transVars, regVars, secVars, cfgVars,
                 envVars, errVars, gehVars>>

RECURSIVE SumInput(_)
SumInput(records) ==
  IF records = <<>> THEN 0
  ELSE Head(records).inputTokens + SumInput(Tail(records))

RECURSIVE SumOutput(_)
SumOutput(records) ==
  IF records = <<>> THEN 0
  ELSE Head(records).outputTokens + SumOutput(Tail(records))

\* the cost computed by getModelStatistics: the totals priced at the rate
\* of the model that is current at the call, 0 without cost information or
\* when the model API fails
EstimatedCost(records, current) ==
  IF current = "unavailable" \/ ~HasCost(current) THEN 0
  ELSE (SumInput(records) \div 1000) * CostPer1kTokens(current).input
         + (SumOutput(records) \div 1000) * CostPer1kTokens(current).output

\* ModelInfoTool.getModelStatistics
GetModelStatistics ==
  /\ ~stats.last.called
  /\ stats' = [stats EXCEPT !.last =
       IF stats.usageRecords = <<>>
         THEN [called |-> TRUE, totalSessions |-> 0, estimatedCost |-> 0]
         ELSE [called |-> TRUE,
               totalSessions |-> Len(stats.usageRecords),
               estimatedCost |-> EstimatedCost(stats.usageRecords,
                                               stats.current)]]
  /\ UNCHANGED <<execVars, protoVars, transVars, regVars, secVars, cfgVars,
                 envVars, errVars, gehVars>>

InitStatistics ==
  stats = [usageRecords |-> <<>>, current |-> "gpt-4", last |-> NoStatistics]

NextStatistics ==
  \/ \E record \in UsageRecords : TrackTokenUsage(record)
  \/ \E m \in ModelNames \cup {"unavailable"} : SwitchModel(m)
  \/ GetModelStatistics

\* ================================================ model statistics: claims

\* each record priced at the rate of the model it was made with
RECURSIVE CostAtOwnRates(_)
CostAtOwnRates(records) ==
  IF records = <<>> THEN 0
  ELSE LET r == Head(records) IN
    (r.inputTokens \div 1000) * CostPer1kTokens(r.modelName).input
      + (r.outputTokens \div 1000) * CostPer1kTokens(r.modelName).output
      + CostAtOwnRates(Tail(records))

\* C33: the estimated cost of the statistics is the sum, over the recorded
\* usages, of each record's tokens priced at the rate of the model of that
\* record, also after the current model has changed; records of a model
\* without cost information contribute 0.
C33_CostAtRecordedRates ==
  stats.last.called =>
    stats.last.estimatedCost = CostAtOwnRates(stats.usageRecords)

\* ============================================== transport: pure functions

\* bytes on the wire: a digit, a double quote, the lead and trail byte of a
\* two-byte UTF-8 character, a space and the newline
Bytes == {"1", "q", "L", "T", "s", "n"}

Replacement == "?"           \* U+FFFD, what a malformed byte decodes to

\* chunk.toString(): UTF-8 decoding of one chunk on its own; a lead byte
\* without its trail byte and a trail byte without its lead byte each
\* decode to U+FFFD
RECURSIVE Decode(_)
Decode(bs) ==
  IF bs = <<>> THEN <<>>
  ELSE IF Head(bs) = "L"
    THEN IF Len(bs) >= 2 /\ bs[2] = "T"
           THEN <<"e">> \o Decode(SubSeq(bs, 3, Len(bs)))
           ELSE <<Replacement>> \o Decode(Tail(bs))
  ELSE IF Head(bs) = "T" THEN <<Replacement>> \o Decode(Tail(bs))
  ELSE <<Head(bs)>> \o Decode(Tail(bs))

\* String.prototype.split('\n'): the pieces between newlines, the last one
\* being what follows the last newline (possibly empty)
RECURSIVE Split(_, _)
Split(cs, cur) ==
  IF cs = <<>> THEN <<cur>>
  ELSE IF Head(cs) = "n" THEN <<cur>> \o Split(Tail(cs), <<>>)
  ELSE Split(Tail(cs), Append(cur, Head(cs)))

SplitLines(cs) == Split(cs, <<>>)

RECURSIVE TrimLeft(_)
TrimLeft(cs) ==
  IF cs # <<>> /\ Head(cs) = "s" THEN TrimLeft(Tail(cs)) ELSE cs

RECURSIVE TrimRight(_)
TrimRight(cs) ==
  IF cs # <<>> /\ cs[Len(cs)] = "s" THEN TrimRight(SubSeq(cs, 1, Len(cs) - 1)) ELSE cs

\* String.prototype.trim()
Trim(cs) == TrimRight(TrimLeft(cs))

\* line.trim().length === 0
IsBlank(line) == Trim(line) = <<>>

Invalid == [type |-> "invalid"]

\* JSON.parse on this alphabet: surrounding whitespace is allowed; a value
\* is a run of digits (a number) or a quoted run of non-quote characters
\* (a string); anything else is a SyntaxError
ParseJSON(line) ==
  LET t == Trim(line) IN
    IF t # <<>> /\ \A i \in 1..Len(t) : t[i] = "1"
      THEN [type |-> "num", text |-> t]
    ELSE IF /\ Len(t) >= 2
            /\ t[1] = "q"
            /\ t[Len(t)] = "q"
            /\ \A i \in 2..(Len(t) - 1) : t[i] # "q"
      THEN [type |-> "str", text |-> SubSeq(t, 2, Len(t) - 1)]
    ELSE Invalid

LineEvent_AlwaysMessage(line) == [kind |-> "message", value |-> ParseJSON(line)]

\* the event one complete, non-blank line gives rise to: emitMessage with
\* the parsed value, or emitError('Invalid JSON: ...')
LineEvent(line) ==
  LET v == ParseJSON(line) IN
    IF v = Invalid THEN [kind |-> "error", value |-> Invalid]
                   ELSE [kind |-> "message", value |-> v]

\* the for loop of handleData over the complete lines
RECURSIVE ProcessLines(_)
ProcessLines(ls) ==
  IF ls = <<>> THEN <<>>
  ELSE IF IsBlank(Head(ls)) THEN ProcessLines(Tail(ls))
  ELSE <<LineEvent(Head(ls))>> \o ProcessLines(Tail(ls))

\* handleData(data) on buffer buf: the new buffer and the events emitted
HandleData(buf, data) ==
  LET lines == SplitLines(buf \o data) IN
    [buffer |-> Last(lines), emitted |-> ProcessLines(AllButLast(lines))]

\* JSON.stringify of a value, as characters
Stringify(v) ==
  IF v.type = "num" THEN v.text ELSE <<"q">> \o v.text \o <<"q">>

\* the UTF-8 bytes of a string of characters
RECURSIVE Encode(_)
Encode(cs) ==
  IF cs = <<>> THEN <<>>
  ELSE IF Head(cs) = "e" THEN <<"L", "T">> \o Encode(Tail(cs))
  ELSE <<Head(cs)>> \o Encode(Tail(cs))

Frame_NoNewline(v) == Encode(Stringify(v))

\* the unit send() hands to stdout.write: JSON.stringify(message) + '\n'
Frame(v) == Encode(Stringify(v) \o <<"n">>)

\* ==================================================== transport: operations

SendValues == {[type |-> "num", text |-> <<"1">>],
               [type |-> "str", text |-> <<"e">>]}

\* chunks of bytes of length 1..k
ByteChunks(k) == UNION {[1..n -> Bytes] : n \in 1..k}

\* line-sized chunks: a number line, an unparseable line and the first half
\* of a line
LineChunks == {<<"1", "n">>, <<"q", "n">>, <<"1">>}

\* chunks that hold exactly one well-formed frame
FrameChunks == {<<"1", "n">>}

\* what lastCall holds after a step that is not a start, send or close call
NoCall == [op |-> "none", result |-> "none"]

Called(op, result) == [op |-> op, result |-> result]

CloseEvent == [kind |-> "close", value |-> Invalid]

StreamError == [kind |-> "error", value |-> [type |-> "stream"]]

StartRefused_Never == FALSE

\* start(): if (this.closed) throw new Error('Transport already closed')
StartRefused == closed

StartReturnsEarly_Never == FALSE

\* start(): if (this.connected) return
StartReturnsEarly == connected

\* start(): attach the data, end and error listeners, then connected = true
TStart ==
  /\ IF StartRefused
       THEN /\ lastCall' = Called("start", "AlreadyClosed")
            /\ UNCHANGED <<connected, attached>>
       ELSE IF StartReturnsEarly
         THEN /\ lastCall' = Called("start", "ok")
              /\ UNCHANGED <<connected, attached>>
         ELSE /\ attached' = attached + 1
              /\ connected' = TRUE
              /\ lastCall' = Called("start", "ok")
  /\ UNCHANGED <<closed, buffer, closeHandlers, otherAttached, otherGot,
                 writes, received, signals, events, execVars, protoVars, restVars>>

SendRefused_Never == FALSE

\* send(): if (!this.connected) throw new Error('Transport not connected')
SendRefused == ~connected

\* send(message): one stdout.write of the whole frame; the promise is
\* settled later by the write callback
TSend(v) ==
  /\ Len(writes) < MaxSends
  /\ IF SendRefused
       THEN /\ lastCall' = Called("send", "NotConnected")
            /\ UNCHANGED writes
       ELSE /\ writes' = Append(writes, [value |-> v, unit |-> Frame(v),
                                         state |-> "pending"])
            /\ lastCall' = Called("send", "ok")
  /\ UNCHANGED <<connected, closed, buffer, closeHandlers, attached,
                 otherAttached, otherGot, received, signals, events,
                 execVars, protoVars, restVars>>

\* the callback of stdout.write: resolves or rejects the send promise;
\* writes complete in the order in which they were issued
WriteCallback(i, ok) ==
  /\ i \in 1..Len(writes)
  /\ writes[i].state = "pending"
  /\ \A j \in 1..(i - 1) : writes[j].state # "pending"
  /\ writes' = [writes EXCEPT ![i].state = IF ok THEN "written" ELSE "failed"]
  /\ lastCall' = NoCall
  /\ UNCHANGED <<connected, closed, buffer, closeHandlers, attached,
                 otherAttached, otherGot, received, signals, events,
                 execVars, protoVars, restVars>>

HandleCloseSkips_Never(isClosed) == FALSE

\* handleClose(): if (this.closed) return
HandleCloseSkips(isClosed) == isClosed

\* how many of n successive handleClose() calls run the close handlers
RECURSIVE CloseRuns(_, _)
CloseRuns(n, isClosed) ==
  IF n = 0 THEN 0
  ELSE IF HandleCloseSkips(isClosed) THEN CloseRuns(n - 1, isClosed)
  ELSE 1 + CloseRuns(n - 1, TRUE)

RECURSIVE Repeat(_, _)
Repeat(e, n) == IF n = 0 THEN <<>> ELSE <<e>> \o Repeat(e, n - 1)

\* n successive handleClose() calls: flags set, every registered close
\* handler invoked once per call that is not skipped
HandleClose(n) ==
  LET runs == CloseRuns(n, closed) IN
    IF runs = 0
      THEN UNCHANGED <<connected, closed, closeHandlers, events>>
      ELSE /\ connected' = FALSE
           /\ closed' = TRUE
           /\ closeHandlers' = [h \in DOMAIN closeHandlers |->
                                  closeHandlers[h] + runs]
           /\ events' = events \o Repeat(CloseEvent, runs)

RemoveOwn_All(own, other) == [own |-> 0, other |-> FALSE]

\* close(): stdin.off / stdout.off with the saved listener references
RemoveOwn(own, other) ==
  [own |-> IF own > 0 THEN own - 1 ELSE 0, other |-> other]

\* close(): nothing when already closed; else detach the saved listeners
\* and notify through handleClose()
TClose ==
  /\ lastCall' = Called("close", "ok")
  /\ IF closed
       THEN UNCHANGED <<connected, closed, closeHandlers, events, attached,
                        otherAttached>>
       ELSE /\ attached' = RemoveOwn(attached, otherAttached).own
            /\ otherAttached' = RemoveOwn(attached, otherAttached).other
            /\ HandleClose(1)
  /\ UNCHANGED <<buffer, otherGot, writes, received, signals, execVars,
                 protoVars, restVars>>

\* onClose(handler)
OnClose ==
  /\ Len(closeHandlers) < MaxHandlers
  /\ closeHandlers' = Append(closeHandlers, 0)
  /\ lastCall' = NoCall
  /\ UNCHANGED <<connected, closed, buffer, attached, otherAttached,
                 otherGot, writes, received, signals, events, execVars,
                 protoVars, restVars>>

\* another consumer of the same streams attaches its own listeners
OtherAttach ==
  /\ ~otherAttached
  /\ otherAttached' = TRUE
  /\ lastCall' = NoCall
  /\ UNCHANGED <<connected, closed, buffer, closeHandlers, attached,
                 otherGot, writes, received, signals, events, execVars,
                 protoVars, restVars>>

\* handleData run once by each of n attached data listeners
RECURSIVE HandleDataTimes(_, _, _)
HandleDataTimes(n, buf, data) ==
  IF n = 0 THEN [buffer |-> buf, emitted |-> <<>>]
  ELSE LET first == HandleData(buf, data)
           rest == HandleDataTimes(n - 1, first.buffer, data)
       IN [buffer |-> rest.buffer, emitted |-> first.emitted \o rest.emitted]

\* stdin emits 'data' with one chunk: every attached data listener gets it
StdinData(chunk) ==
  /\ attached > 0 \/ otherAttached
  /\ Len(received) + Len(chunk) <= MaxInput
  /\ received' = received \o chunk
  /\ LET r == HandleDataTimes(attached, buffer, Decode(chunk)) IN
       /\ buffer' = r.buffer
       /\ events' = events \o r.emitted
  /\ otherGot' = otherAttached
  /\ lastCall' = NoCall
  /\ UNCHANGED <<connected, closed, closeHandlers, attached, otherAttached,
                 writes, signals, execVars, protoVars, restVars>>

\* stdin emits 'end': every attached end listener calls handleClose()
StdinEnd ==
  /\ Len(signals) < MaxSignals
  /\ signals' = Append(signals, "end")
  /\ HandleClose(attached)
  /\ otherGot' = otherAttached
  /\ lastCall' = NoCall
  /\ UNCHANGED <<buffer, attached, otherAttached, writes, received,
                 execVars, protoVars, restVars>>

ErrorListenerCloses_Always == TRUE

\* the stdin and stdout error listeners only call emitError(error)
ErrorListenerCloses == FALSE

\* a stream emits 'error': every attached error listener emits it
StreamFails ==
  /\ Len(signals) < MaxSignals
  /\ signals' = Append(signals, "error")
  /\ IF ErrorListenerCloses /\ attached > 0 /\ ~closed
       THEN /\ connected' = FALSE
            /\ closed' = TRUE
            /\ closeHandlers' = [h \in DOMAIN closeHandlers |->
                                   closeHandlers[h] + 1]
            /\ events' = events \o Repeat(StreamError, attached)
                                \o <<CloseEvent>>
       ELSE /\ events' = events \o Repeat(StreamError, attached)
            /\ UNCHANGED <<connected, closed, closeHandlers>>
  /\ otherGot' = otherAttached
  /\ lastCall' = NoCall
  /\ UNCHANGED <<buffer, attached, otherAttached, writes, received,
                 execVars, protoVars, restVars>>

\* this.stdin.on('error', this.stdinErrorListener)
StdinError == StreamFails

\* this.stdout.on('error', this.stdoutErrorListener)
StdoutError == StreamFails

InitTransport ==
  /\ connected = FALSE
  /\ closed = FALSE
  /\ buffer = <<>>
  /\ closeHandlers = <<>>
  /\ attached = 0
  /\ otherAttached = FALSE
  /\ otherGot = FALSE
  /\ writes = <<>>
  /\ received = <<>>
  /\ signals = <<>>
  /\ events = <<>>
  /\ lastCall = NoCall

\* the framing of inbound bytes, whatever the chunking
NextFraming ==
  \/ TStart
  \/ \E chunk \in ByteChunks(MaxInput - Len(received)) : StdinData(chunk)

\* a session seen from its user: frames in, frames out, stream failures and
\* the ends of the session
NextOutput ==
  \/ TStart
  \/ \E v \in SendValues : TSend(v)
  \/ \E i \in 1..MaxSends, ok \in BOOLEAN : WriteCallback(i, ok)
  \/ TClose
  \/ \E chunk \in FrameChunks : StdinData(chunk)
  \/ StdinEnd
  \/ StdinError
  \/ StdoutError

\* the life cycle of the transport: its listeners on the streams, its close
\* handlers and another consumer of the same streams
NextTransport ==
  \/ TStart
  \/ TClose
  \/ OnClose
  \/ OtherAttach
  \/ \E chunk \in LineChunks : StdinData(chunk)
  \/ StdinEnd
  \/ StdinError
  \/ StdoutError

\* ====================================================== transport: claims

\* the complete (newline-terminated) lines of the whole input received so
\* far, decoded as one piece
InputLines == AllButLast(SplitLines(Decode(received)))

\* one event kind for each non-blank line: "error" when the line does not
\* parse, "message" when it does
RECURSIVE ExpectedKinds(_)
ExpectedKinds(ls) ==
  IF ls = <<>> THEN <<>>
  ELSE IF Trim(Head(ls)) = <<>> THEN ExpectedKinds(Tail(ls))
  ELSE <<IF ParseJSON(Head(ls)) = Invalid THEN "error" ELSE "message">>
       \o ExpectedKinds(Tail(ls))

Kinds(es) == [i \in DOMAIN es |-> es[i].kind]

\* C12: a received line that does not parse produces exactly one error
\* event and no message event, and does not end the stream: the events
\* emitted are, line by line, one error for each unparseable line and one
\* message for each well-formed line, whether the well-formed line follows
\* in the same chunk or in a later one, and the transport stays connected
\* with its listeners attached.
C12_BadLineIsOneError ==
  /\ [][received' # received =>
          /\ connected' = connected
          /\ closed' = closed
          /\ attached' = attached]_vars
  /\ [](Kinds(events) = ExpectedKinds(InputLines))

\* an unparseable line followed by a well-formed line: one error event,
\* then the message
C12_Witness ==
  /\ received = <<"q", "n", "1", "n">>
  /\ Kinds(events) = <<"error", "message">>
  /\ events[2].value = [type |-> "num", text |-> <<"1">>]
  /\ connected

Messages(es) == SelectSeq(es, LAMBDA e : e.kind = "message")

\* C13: the message events are, in arrival order, the JSON values of the
\* non-blank newline-terminated lines of the concatenated input, each
\* delivered once however the bytes are split into chunks; the trailing
\* partial line is held back and a blank line yields nothing.
C13_MessagesAreLinesOfInput ==
  Messages(events) = Messages(ProcessLines(InputLines))

\* the bytes handed to stdout so far, in the order of the write calls
RECURSIVE Written(_)
Written(ws) == IF ws = <<>> THEN <<>> ELSE Head(ws).unit \o Written(Tail(ws))

\* C14: each accepted send(V) hands stdout exactly one unit, the JSON text
\* of V followed by one newline, and the units of several sends, concurrent
\* ones included, are neither coalesced nor interleaved: read back line by
\* line, the bytes written are the values sent, one per line, in the order
\* of the sends, with nothing after the last newline.
C14_OneUnitPerSend ==
  /\ [][(lastCall'.op = "send" /\ connected) =>
          /\ Len(writes') = Len(writes) + 1
          /\ SubSeq(writes', 1, Len(writes)) = writes]_vars
  /\ [](LET lines == SplitLines(Decode(Written(writes))) IN
          /\ Len(lines) = Len(writes) + 1
          /\ Last(lines) = <<>>
          /\ \A i \in DOMAIN writes : ParseJSON(lines[i]) = writes[i].value)

\* two sends of different values, the second issued while the write of the
\* first has not completed
C14_Witness ==
  /\ Len(writes) = 2
  /\ writes[1].value # writes[2].value
  /\ writes[1].state = "pending"
  /\ writes[2].state = "pending"
  /\ lastCall = Called("send", "ok")

\* C15: send fails with NotConnected and writes nothing whenever the
\* transport is not started: before start, after close() and after the end
\* of the input (a closed transport is never connected).
C15_SendNeedsConnection ==
  /\ [][(lastCall'.op = "send" /\ ~connected) =>
          /\ lastCall'.result = "NotConnected"
          /\ writes' = writes]_vars
  /\ [](closed => ~connected)

\* a send refused after the end of the input, nothing written
C15_Witness ==
  /\ lastCall = Called("send", "NotConnected")
  /\ closed
  /\ signals = <<"end">>
  /\ events = <<CloseEvent>>
  /\ writes = <<>>

CloseEvents == SelectSeq(events, LAMBDA e : e.kind = "close")

Chunk == SubSeq(received', Len(received) + 1, Len(received'))

StreamEvent == received' # received \/ signals' # signals

C20_StreamErrorKeepsSession ==
  /\ [][(signals' = Append(signals, "error") /\ connected) =>
          /\ events' = Append(events, StreamError)
          /\ connected'
          /\ ~closed'
          /\ attached' = attached]_vars
  /\ [][(received' # received /\ connected) =>
          events' = events \o HandleData(buffer, Decode(Chunk)).emitted]_vars
  /\ [][(lastCall'.op = "send" /\ connected) =>
          /\ lastCall'.result = "ok"
          /\ Len(writes') = Len(writes) + 1
          /\ writes'[Len(writes')].state = "pending"]_vars
  /\ [](connected => attached = 1)

\* a stream error, then a frame received, then a frame sent
C20_Witness ==
  /\ events = <<StreamError, [kind |-> "message",
                              value |-> [type |-> "num", text |-> <<"1">>]]>>
  /\ lastCall = Called("send", "ok")
  /\ Len(writes) = 1
  /\ connected

\* a session: the handshake of the protocol handler and the life of the
\* transport that carries it
NextSession ==
  \/ \E v \in Versions, ci \in Clients : Initialize(v, ci)
  \/ TStart
  \/ \E v \in SendValues : TSend(v)
  \/ TClose
  \/ \E chunk \in FrameChunks : StdinData(chunk)
  \/ StdinEnd

\* the state of the session
SessionState ==
  IF closed THEN "Closed"
  ELSE IF initialized THEN "Initialized" ELSE "Uninitialized"

C40_NothingAfterClose ==
  \A i, j \in DOMAIN events :
    (i < j /\ events[i].kind = "close")
      => events[j].kind \notin {"message", "error"}

\* ========================================================== specifications

Init ==
  /\ InitExec /\ InitProto /\ InitTransport /\ InitRegistry /\ InitSandbox
  /\ InitConfig /\ InitOverlay /\ InitErrors /\ InitGlobal /\ InitStatistics

SpecExec == Init /\ [][NextExec]_vars

SpecProto == Init /\ [][NextProto]_vars

SpecServer == Init /\ [][NextServer]_vars

SpecRegistry == Init /\ [][NextRegistry]_vars

\* one validatePath call on a validator, everything else as constructed
InitValidation ==
  /\ InitExec /\ InitProto /\ InitTransport /\ InitRegistry /\ DrawValidation
  /\ InitConfig /\ InitOverlay /\ InitErrors /\ InitGlobal /\ InitStatistics

SpecSandbox == InitValidation /\ [][NextSandbox]_vars

\* one load of a valid file in some environment
InitEnvironment ==
  /\ InitExec /\ InitProto /\ InitTransport /\ InitRegistry /\ InitSandbox
  /\ InitConfig /\ DrawOverlay /\ InitErrors /\ InitGlobal /\ InitStatistics

SpecOverlay == InitEnvironment /\ [][NextOverlay]_vars

\* one handleError call
InitThrown ==
  /\ InitExec /\ InitProto /\ InitTransport /\ InitRegistry /\ InitSandbox
  /\ InitConfig /\ InitOverlay /\ DrawError /\ InitGlobal /\ InitStatistics

SpecErrors == InitThrown /\ [][NextErrors]_vars

SpecGlobal == Init /\ [][NextGlobal]_vars

SpecStatistics == Init /\ [][NextStatistics]_vars

SpecLoad == Init /\ [][NextLoad]_vars

SpecWatch == Init /\ [][NextWatch]_vars

SpecSession == Init /\ [][NextSession]_vars

SpecFraming == Init /\ [][NextFraming]_vars

SpecOutput == Init /\ [][NextOutput]_vars

SpecTransport == Init /\ [][NextTransport]_vars

====
